---- MODULE Spec2Model ----
(***************************************************************************)
(* CalDAV synchronisation engine of vividly: syncSelectedCalendars         *)
(* (src/services/caldav.ts) over the event store adapter                   *)
(* (src/services/api.ts) and the CalDAV relay (caldav-proxy edge function).*)
(*                                                                         *)
(* Absent values (null / undefined / missing column) are written None,     *)
(* NoUid or NoToken.                                                       *)
(* A calendar URL is a pair: the calendar it names and whether the text    *)
(* ends with a slash.                                                      *)
(***************************************************************************)
EXTENDS Integers, Sequences, FiniteSets, TLC

\* ---------------------------------------------------------------------
\* Bounds of the exploration
\* ---------------------------------------------------------------------
MaxPasses == 2          \* accepted syncSelectedCalendars calls per behaviour
MaxFaults == 1          \* requests answered with an error per behaviour
MaxRemoteChanges == 1   \* PUT / DELETE operations other clients perform on the server
MaxBulk == 21           \* largest pre-existing calendar in the deletion-step specification
MaxRows == 113          \* rows of the calendar in the batching specification

\* ---------------------------------------------------------------------
\* Program constants
\* ---------------------------------------------------------------------
AbortMinExisting == 10  \* existingEvents.length >= 10
AbortNum == 9           \* toDelete.length > existingEvents.length * 0.9
AbortDen == 10
batchSize == 50

None == "null"                \* absent text value (null / undefined)
NoUid == 0                    \* absent UID
NoToken == 0                  \* absent sync token
Procs == {1, 2}               \* call frames: a new call takes the lowest idle one
Cals == {1, 2}                \* calendars of the account
Slots == {1, 2}               \* resources of calendar 1 on the server
Uids == {1, 2}                \* UIDs used by the server for calendar 1

\* Field values of an event as the relay's parseICalEvent produces them.
\* Shape 2 differs from shape 1 in colour only, shape 4 in the date only (a
\* date outside the window of the full fetch); shape 3 is a timed event.
ShapeIds == {1, 2, 3, 4}
Fields(s) ==
  CASE s = 1 -> [title |-> "A", date |-> 1, memo |-> None, startTime |-> None, endTime |-> None, color |-> "blue"]
    [] s = 2 -> [title |-> "A", date |-> 1, memo |-> None, startTime |-> None, endTime |-> None, color |-> "red"]
    [] s = 3 -> [title |-> "B", date |-> 2, memo |-> "m", startTime |-> "10:00", endTime |-> "11:00", color |-> "blue"]
    [] OTHER -> [title |-> "A", date |-> 9, memo |-> None, startTime |-> None, endTime |-> None, color |-> "blue"]

\* dates inside [today - 1 year, today + 1 year]
WindowDates == {1, 2}
InWindow(s) == Fields(s).date \in WindowDates

Url(c, slash) == [cal |-> c, slash |-> slash]

Urls == {Url(c, slash) : c \in Cals, slash \in BOOLEAN}

\* Variant that leaves the URL as it was given.
normalizeCalendarUrl_AsGiven(u) == u

\* url.replace(/\/+$/, '')
normalizeCalendarUrl(u) == [u EXCEPT !.slash = FALSE]

\* the account the engine syncs, and another account of the same server whose
\* tokens are in the browser's storage too
TestConfig ==
  [serverUrl |-> "https://caldav.example.com", username |-> "user",
   password |-> "pw", settingId |-> "secure-setting-id-123"]

OtherConfig == [TestConfig EXCEPT !.username = "other"]
Configs == {TestConfig, OtherConfig}

\* Variant that keys the stored map by the server alone.
getSyncTokenStorageKey_PerServer(config) == <<"caldavSyncTokens", config.serverUrl>>

\* `caldavSyncTokens:${config.serverUrl}:${config.username}`
getSyncTokenStorageKey(config) == <<"caldavSyncTokens", config.serverUrl, config.username>>

StorageKeys == {getSyncTokenStorageKey(config) : config \in Configs}

\* A remote event as delivered to the client: the parsed fields plus uid.
RemoteEvent(uid, s) == [uid |-> uid] @@ Fields(s)

\* ---------------------------------------------------------------------
\* Event store adapter (table "events"); rows are records
\*   id, caldav_uid, calendar_url, title, date, memo, start_time, end_time,
\*   color, source
\* ---------------------------------------------------------------------
Row(id, uid, url, f, source) ==
  [id |-> id, caldav_uid |-> uid, calendar_url |-> url,
   title |-> f.title, date |-> f.date, memo |-> f.memo,
   start_time |-> f.startTime, end_time |-> f.endTime,
   color |-> f.color, source |-> source]

\* rows selected by .eq('caldav_uid', uid).eq('calendar_url', normalized)
RowsByUID(st, uid, calendarUrl) ==
  {r \in st : r.caldav_uid = uid /\ r.calendar_url = normalizeCalendarUrl(calendarUrl)}

\* eventExistsByUID: a query error is reported as "does not exist"
eventExistsByUID(st, uid, calendarUrl, ok) ==
  ok /\ RowsByUID(st, uid, calendarUrl) # {}

\* fetchEventByUID: maybeSingle() yields no row when none or several match,
\* and a query error yields null; the result is the set of rows returned
\* (empty for null).
fetchEventByUID(st, uid, calendarUrl, ok) ==
  LET rows == RowsByUID(st, uid, calendarUrl)
  IN  IF ok /\ Cardinality(rows) = 1 THEN rows ELSE {}

\* Variant of the diff that always reports the date as changed.
DiffFields_AlwaysDate(existing, event) == {"date"}

\* The field-level diff of the reconciliation: names of the fields that differ.
DiffFields(existing, event) ==
  {k \in {"title", "date", "memo", "startTime", "endTime", "color"} :
     CASE k = "title"     -> existing.title # event.title
       [] k = "date"      -> existing.date # event.date
       [] k = "memo"      -> existing.memo # event.memo
       [] k = "startTime" -> existing.start_time # event.startTime
       [] k = "endTime"   -> existing.end_time # event.endTime
       [] OTHER           -> existing.color # event.color}

\* updateEventByUID: the payload carries title, date, memo, start_time and
\* end_time of the updates; a color entry of the updates is not copied.
UpdatedRow(r, updates, event) ==
  [r EXCEPT !.title      = IF "title" \in updates THEN event.title ELSE @,
            !.date       = IF "date" \in updates THEN event.date ELSE @,
            !.memo       = IF "memo" \in updates THEN event.memo ELSE @,
            !.start_time = IF "startTime" \in updates THEN event.startTime ELSE @,
            !.end_time   = IF "endTime" \in updates THEN event.endTime ELSE @]

updateEventByUID(st, uid, calendarUrl, updates, event) ==
  LET hit == RowsByUID(st, uid, calendarUrl)
  IN  (st \ hit) \cup {UpdatedRow(r, updates, event) : r \in hit}

\* findEventByDetails: .eq('start_time', event.startTime || null) never matches
\* a NULL column, so only events with both times can be found.
DetailMatches(st, event, calendarUrl) ==
  {r \in st : /\ r.title = event.title
              /\ r.date = event.date
              /\ event.startTime # None /\ r.start_time = event.startTime
              /\ event.endTime # None /\ r.end_time = event.endTime
              /\ r.calendar_url = normalizeCalendarUrl(calendarUrl)
              /\ r.source = "caldav"
              /\ r.caldav_uid = NoUid}

\* updateEventUID: .update({caldav_uid, calendar_url, source:'caldav'}).eq('id', id)
updateEventUID(st, eventId, uid, calendarUrl) ==
  {IF r.id = eventId
     THEN [r EXCEPT !.caldav_uid = uid,
                    !.calendar_url = normalizeCalendarUrl(calendarUrl),
                    !.source = "caldav"]
     ELSE r : r \in st}

\* eventExists(event, calendarUrl, 'caldav'): title, date, times (NULL-aware),
\* source and normalized calendar_url; the UID column is not consulted.
eventExists(st, event, calendarUrl, ok) ==
  ok /\ \E r \in st : /\ r.title = event.title
                      /\ r.date = event.date
                      /\ r.source = "caldav"
                      /\ r.start_time = event.startTime
                      /\ r.end_time = event.endTime
                      /\ r.calendar_url = normalizeCalendarUrl(calendarUrl)

\* createEvent: the inserted row (calendar_url normalized, source as given)
createEvent(id, event, uid, calendarUrl, source) ==
  Row(id, uid, normalizeCalendarUrl(calendarUrl), event, source)

\* The unique constraint of table "events" (409 Conflict, duplicate key): a
\* second row with the same caldav_uid and the same stored calendar_url is
\* refused.  NULL UIDs never conflict.
DuplicateKey(st, id, uid, url) ==
  uid # NoUid /\ \E r \in st : r.id # id /\ r.caldav_uid = uid /\ r.calendar_url = url

\* ---------------------------------------------------------------------
\* deleteRemovedEvents
\* ---------------------------------------------------------------------
OrEmpty(v) == IF v = None THEN "" ELSE v

\* `${title}|${date}|${startTime || ''}|${endTime || ''}`
EventKey(title, date, startTime, endTime) ==
  <<title, date, OrEmpty(startTime), OrEmpty(endTime)>>

SeqRange(s) == {s[i] : i \in 1..Len(s)}

currentEventKeys(currentEvents) ==
  {EventKey(e.title, e.date, e.startTime, e.endTime) : e \in SeqRange(currentEvents)}

\* Variant that loads the calendar's rows of every source.
existingEvents_AnySource(st, calendarUrl) ==
  {r \in st : normalizeCalendarUrl(r.calendar_url) = normalizeCalendarUrl(calendarUrl)}

\* .in('calendar_url', [normalized, normalized + '/']).eq('source', 'caldav')
existingEvents(st, calendarUrl) ==
  {r \in st : /\ normalizeCalendarUrl(r.calendar_url) = normalizeCalendarUrl(calendarUrl)
              /\ r.source = "caldav"}

\* Variant that compares by UID only.
shouldDelete_UidOnly(r, currentUids, currentEvents) == r.caldav_uid \notin currentUids

shouldDelete(r, currentUids, currentEvents) ==
  IF r.caldav_uid # NoUid
    THEN r.caldav_uid \notin currentUids
    ELSE EventKey(r.title, r.date, r.start_time, r.end_time) \notin currentEventKeys(currentEvents)

toDelete(st, calendarUrl, currentUids, currentEvents) ==
  {r \in existingEvents(st, calendarUrl) : shouldDelete(r, currentUids, currentEvents)}

\* Variant without the empty-fetch guard.
EmptyFetch_Never(currentEvents, currentUids) == FALSE

\* currentEvents.length === 0 && currentUids.size === 0
EmptyFetch(currentEvents, currentUids) == Len(currentEvents) = 0 /\ currentUids = {}

\* Variant of the runaway guard that compares with the whole of the existing
\* rows instead of 90% of them.
RunawayGuard_NoRatio(nExisting, nToDelete) ==
  nExisting >= AbortMinExisting /\ nToDelete > nExisting

\* Variant of the runaway guard that already aborts at 90%.
RunawayGuard_AtNinety(nExisting, nToDelete) ==
  nExisting >= AbortMinExisting /\ AbortDen * nToDelete >= AbortNum * nExisting

\* existingEvents.length >= 10 && toDelete.length > existingEvents.length * 0.9
RunawayGuard(nExisting, nToDelete) ==
  nExisting >= AbortMinExisting /\ AbortDen * nToDelete > AbortNum * nExisting

\* ids in the order of the loaded rows (taken as ascending id)
RECURSIVE SortedIds(_)
SortedIds(ids) ==
  IF ids = {} THEN <<>>
  ELSE LET m == CHOOSE x \in ids : \A y \in ids : x <= y
       IN  <<m>> \o SortedIds(ids \ {m})

NumBatches(n) == (n + batchSize - 1) \div batchSize

\* toDelete.slice(i, i + batchSize) for the b-th batch: the ids whose place
\* in the order of the load lies in (b - 1) * batchSize + 1 .. b * batchSize
Batch(ids, b) ==
  {x \in ids : LET place == Cardinality({y \in ids : y <= x})
               IN  place > (b - 1) * batchSize /\ place <= b * batchSize}

\* Variant in which the first failing batch ends the loop.
AttemptedBatches_UntilFailure(n, failed) ==
  {b \in 1..n : \A f \in failed : b <= f}

\* the batches whose delete is sent: a failing batch is logged and the loop
\* continues
AttemptedBatches(n, failed) == 1..n

\* The outcome of one call: the rows left in the store, the count returned
\* and the batches whose delete failed.
\* loadOk: the select of existing rows succeeded; failed: the batches whose
\* delete is answered with an error.
deleteRemovedEvents(st, calendarUrl, currentUids, currentEvents, loadOk, failed) ==
  LET existing == existingEvents(st, calendarUrl)
      cand     == toDelete(st, calendarUrl, currentUids, currentEvents)
      ids      == {r.id : r \in cand}
      sent     == AttemptedBatches(NumBatches(Cardinality(ids)), failed)
      gone     == UNION {Batch(ids, b) : b \in sent \ failed}
  IN  IF EmptyFetch(currentEvents, currentUids)
        THEN [store |-> st, deleted |-> 0, failed |-> {}]
      ELSE IF ~loadOk
        THEN [store |-> st, deleted |-> 0, failed |-> {}]
      ELSE IF RunawayGuard(Cardinality(existing), Cardinality(cand))
        THEN [store |-> st, deleted |-> 0, failed |-> {}]
      ELSE [store |-> {r \in st : r.id \notin gone}, deleted |-> Cardinality(gone),
            failed |-> sent \cap failed]

\* ---------------------------------------------------------------------
\* Reconciliation of one fetched event (the body of the for loop of
\* syncSelectedCalendars).  fault names the store call that is answered with
\* an error ("none": every call succeeds); m is the row findEventByDetails
\* returns when several match (limit(1)).
\* ---------------------------------------------------------------------
Faults == {"none", "exists", "fetch", "update", "find", "attach", "create"}

Outcome(st, created, synced, skipped, note) ==
  [store |-> st, created |-> created, synced |-> synced, skipped |-> skipped, note |-> note]

ReconcileExisting(st, e, calendarUrl, fault) ==
  LET existing == fetchEventByUID(st, e.uid, calendarUrl, fault # "fetch")
      ex       == CHOOSE r \in existing : TRUE
      updates  == DiffFields(ex, e)
  IN  IF existing = {} THEN Outcome(st, FALSE, 0, 1, "existing-not-fetched")
      ELSE IF updates = {} THEN Outcome(st, FALSE, 0, 1, "unchanged")
      ELSE IF fault = "update" THEN Outcome(st, FALSE, 0, 1, "update-failed")
      ELSE Outcome(updateEventByUID(st, e.uid, calendarUrl, updates, e), FALSE, 1, 0, "updated")

ReconcileCreate(st, id, e, calendarUrl, fault) ==
  IF fault = "create" \/ DuplicateKey(st, id, e.uid, normalizeCalendarUrl(calendarUrl))
    THEN Outcome(st, FALSE, 0, 0, "create-failed")
  ELSE Outcome(st \cup {createEvent(id, e, e.uid, calendarUrl, "caldav")}, TRUE, 1, 0, "created")

ReconcileWithUid(st, id, e, calendarUrl, fault, m) ==
  IF eventExistsByUID(st, e.uid, calendarUrl, fault # "exists")
    THEN ReconcileExisting(st, e, calendarUrl, fault)
  ELSE IF fault # "find" /\ DetailMatches(st, e, calendarUrl) # {}
    THEN IF fault = "attach" \/ DuplicateKey(st, m.id, e.uid, normalizeCalendarUrl(calendarUrl))
           THEN Outcome(st, FALSE, 0, 1, "attach-failed")
           ELSE Outcome(updateEventUID(st, m.id, e.uid, calendarUrl), FALSE, 0, 1, "attached")
  ELSE ReconcileCreate(st, id, e, calendarUrl, fault)

ReconcileWithoutUid(st, id, e, calendarUrl, fault) ==
  IF eventExists(st, e, calendarUrl, fault # "exists")
    THEN Outcome(st, FALSE, 0, 1, "exists-by-details")
    ELSE ReconcileCreate(st, id, e, calendarUrl, fault)

ReconcileEvent(st, id, e, calendarUrl, fault, m) ==
  IF e.uid # NoUid
    THEN ReconcileWithUid(st, id, e, calendarUrl, fault, m)
    ELSE ReconcileWithoutUid(st, id, e, calendarUrl, fault)

\* ---------------------------------------------------------------------
\* ICS codec: serializeEventToICS in the client, parseICalEvent in the relay.
\* Dates are civil dates; a JavaScript Date is an instant, written in UTC
\* as a civil date and a minute of that day; the runtime's time zone is
\* its offset from UTC in minutes.
\* ---------------------------------------------------------------------
Day(y, m, d) == [y |-> y, m |-> m, d |-> d]

NoTime == <<>>
Time(h, mi) == <<h, mi>>

MinutesPerDay == 24 * 60

IsLeap(y) == (y % 4 = 0 /\ y % 100 # 0) \/ y % 400 = 0

DaysInMonth(y, m) ==
  IF m = 2 THEN (IF IsLeap(y) THEN 29 ELSE 28)
  ELSE IF m \in {4, 6, 9, 11} THEN 30 ELSE 31

NextDay(t) ==
  IF t.d < DaysInMonth(t.y, t.m) THEN Day(t.y, t.m, t.d + 1)
  ELSE IF t.m < 12 THEN Day(t.y, t.m + 1, 1)
  ELSE Day(t.y + 1, 1, 1)

PrevDay(t) ==
  IF t.d > 1 THEN Day(t.y, t.m, t.d - 1)
  ELSE IF t.m > 1 THEN Day(t.y, t.m - 1, DaysInMonth(t.y, t.m - 1))
  ELSE Day(t.y - 1, 12, 31)

Instant(day, min) == [day |-> day, min |-> min]

\* the instant k minutes later (|k| below one day)
Shift(t, k) ==
  LET total == t.min + k
  IN  IF total < 0 THEN Instant(PrevDay(t.day), total + MinutesPerDay)
      ELSE IF total >= MinutesPerDay THEN Instant(NextDay(t.day), total - MinutesPerDay)
      ELSE Instant(t.day, total)

\* new Date("YYYY-MM-DD"): a date-only string is midnight UTC
DateOnlyInstant(date) == Instant(date, 0)

\* new Date("YYYY-MM-DDTHH:mm"): a string without offset is local time
LocalInstant(date, time, tz) == Shift(Instant(date, time[1] * 60 + time[2]), 0 - tz)

\* getFullYear() .. getMinutes(): the instant's fields in the runtime's zone
LocalFields(t, tz) == Shift(t, tz)

\* nextDay.setDate(nextDay.getDate() + 1): the next local day, same local time
SetDatePlusOne(t, tz) ==
  LET l == LocalFields(t, tz)
  IN  Shift(Instant(NextDay(l.day), l.min), 0 - tz)

\* ICAL.Time.fromJSDate(d) without useUTC: the local fields, floating
fromJSDate(t, tz) ==
  LET l == LocalFields(t, tz)
  IN  [isDate |-> FALSE, day |-> l.day, hour |-> l.min \div 60, minute |-> l.min % 60]

\* The value text of a date or date-time property: YYYYMMDD (8 characters)
\* or YYYYMMDDTHHMMSS (15 characters; floating, so no Z).
ValueText(v) ==
  IF v.isDate THEN [chars |-> 8, day |-> v.day, hour |-> 0, minute |-> 0]
              ELSE [chars |-> 15, day |-> v.day, hour |-> v.hour, minute |-> v.minute]

Line(name, param, value) == [name |-> name, param |-> param, value |-> value]

TimeLine(name, v) == Line(name, IF v.isDate THEN "VALUE=DATE" ELSE "", ValueText(v))

\* event.title || <the default title, "new event" in Korean>
DefaultTitle == "(new event)"
\* `vividly-${Date.now()}-${random}`
GeneratedUid == "vividly-generated"
\* the UID createCalDavEvent makes up itself (another Date.now() and random)
CreatedUid == "vividly-created"

\* if (event.startTime && event.endTime)
IsTimed(event) == event.startTime # NoTime /\ event.endTime # NoTime

\* The lines of the VEVENT that serializeEventToICS writes, in order.
serializeEventToICS(event, tz) ==
  LET head == << Line("SUMMARY", "", IF event.title = "" THEN DefaultTitle ELSE event.title),
                 Line("UID", "", IF event.caldavUid \in {None, ""} THEN GeneratedUid
                                                           ELSE event.caldavUid) >>
      start == IF IsTimed(event)
                 THEN fromJSDate(LocalInstant(event.date, event.startTime, tz), tz)
                 ELSE [fromJSDate(DateOnlyInstant(event.date), tz) EXCEPT !.isDate = TRUE]
      end   == IF IsTimed(event)
                 THEN fromJSDate(LocalInstant(event.date, event.endTime, tz), tz)
                 ELSE [fromJSDate(SetDatePlusOne(DateOnlyInstant(event.date), tz), tz)
                         EXCEPT !.isDate = TRUE]
  IN  head \o << TimeLine("DTSTART", start), TimeLine("DTEND", end) >>

\* icalData.match(/NAME(?:;.*?)?:(...)/): the first line of that name
Matches(text, name) == {i \in 1..Len(text) : text[i].name = name}
Match(text, name) == text[CHOOSE i \in Matches(text, name) : \A j \in Matches(text, name) : i <= j]

ParsedNull ==
  [ok |-> FALSE, date |-> Day(0, 0, 0), title |-> "", startTime |-> NoTime,
   endTime |-> NoTime, uid |-> None]

\* parseICalEvent: Date.UTC of the value's fields and the getUTC* readers.
parseICalEvent(text) ==
  IF Matches(text, "DTSTART") = {} THEN ParsedNull
  ELSE
    LET dtstart == Match(text, "DTSTART").value
        hasEnd  == Matches(text, "DTEND") # {}
        dtend   == Match(text, "DTEND").value
    IN  IF dtstart.chars # 8 /\ dtstart.chars < 15 THEN ParsedNull
        ELSE [ok |-> TRUE,
              date |-> dtstart.day,
              title |-> IF Matches(text, "SUMMARY") = {} THEN ""
                        ELSE Match(text, "SUMMARY").value,
              startTime |-> IF dtstart.chars > 8 THEN Time(dtstart.hour, dtstart.minute)
                                                 ELSE NoTime,
              endTime |-> IF hasEnd /\ dtend.chars > 8 /\ dtend.chars >= 15
                            THEN Time(dtend.hour, dtend.minute) ELSE NoTime,
              uid |-> IF Matches(text, "UID") = {} THEN None ELSE Match(text, "UID").value]

\* ---------------------------------------------------------------------
\* State
\* ---------------------------------------------------------------------
VARIABLES
  store,         \* rows of table "events"
  nextId,        \* next id the store assigns
  remote,        \* calendar 1 on the server: slot -> resource
  srvVer,        \* calendar 1's current sync token on the server
  delVer,        \* sync token value of calendar 1's latest deletion (0: none)
  localStorage,  \* the browser's storage: storage key -> (calendar URL -> token)
  syncInFlight,  \* the module-level flag
  call,          \* per caller: the locals of its syncSelectedCalendars call
  passes,        \* calls that passed the gate so far
  faults,        \* requests answered with an error so far
  hist,          \* history of the current (or last) pass
  lastOp,        \* the step taken last (history variable)
  client,        \* one call of a relay-backed client function (invokeCalDavProxy)
  http,          \* the message in flight between a caller and the relay
  relay,         \* the relay's handling of one request (Deno.serve)
  dav,           \* the CalDAV server as the relay sees it
  codec          \* one trip of an event through the ICS encoder and decoder

engineVars == <<store, nextId, remote, srvVer, delVer, localStorage, syncInFlight,
                call, passes, faults, hist, lastOp>>

\* the variables of the relay path and of the codec, which a sync pass leaves alone
sideVars == <<client, http, relay, dav, codec>>

vars == <<engineVars, sideVars>>

\* the codec before an event is handed to it
Event(date, title, startTime, endTime, caldavUid) ==
  [date |-> date, title |-> title, startTime |-> startTime, endTime |-> endTime,
   caldavUid |-> caldavUid]

CodecOf(event, tz) ==
  [pc |-> "idle", event |-> event, tz |-> tz, text |-> <<>>, parsed |-> ParsedNull]

IdleCodec == CodecOf(Event(Day(2024, 1, 29), "Meeting", NoTime, NoTime, "uid-123"), 0)

\* ---------------------------------------------------------------------
\* The relay path at rest.  An entity tag is its opaque text (a number here)
\* and the number of quote pairs around it; a request body is a record that
\* holds exactly the keys JSON.stringify writes.
\* ---------------------------------------------------------------------
NoEtag == [tag |-> 0, quotes |-> 0]
Etag(n, q) == [tag |-> n, quotes |-> q]

NoData == [success |-> FALSE, etag |-> NoEtag, syncToken |-> NoToken, calendars |-> 0]
NoBody == [action |-> ""]

NoHttp ==
  [kind |-> "none", peer |-> "client", bearer |-> "none", body |-> NoBody,
   status |-> 0, data |-> NoData]

NoCall == [op |-> "", uid |-> "", out |-> "none"]

IdleClient ==
  [pc |-> "idle", op |-> "", body |-> NoBody, uid |-> "", etag |-> NoEtag, given |-> None,
   requests |-> 0, refreshes |-> 0, out |-> "none", status |-> 0, value |-> NoData,
   calls |-> 0, prev |-> NoCall]

IdleRelay ==
  [pc |-> "idle", peer |-> "client", auth |-> "", davRequests |-> 0,
   method |-> "", ifMatch |-> NoEtag, davStatus |-> 0, inTry |-> FALSE, steps |-> <<>>]

EventUids == {"uid-123", CreatedUid}

\* the server's event resources: uid -> entity tag text (0: no such resource)
DavOf(tag) == [ver |-> [u \in EventUids |-> IF u = "uid-123" THEN tag ELSE 0], next |-> 2]

RelayPathAtRest ==
  /\ client = IdleClient
  /\ http = NoHttp
  /\ relay = IdleRelay
  /\ dav = DavOf(1)

SideAtRest ==
  /\ RelayPathAtRest
  /\ codec = IdleCodec

Absent == [present |-> FALSE, uid |-> NoUid, shape |-> 1, ver |-> 0]
Resource(uid, s, v) == [present |-> TRUE, uid |-> uid, shape |-> s, ver |-> v]

\* what other clients store in each slot: <<uid, shape>>
SlotMenu(s) ==
  IF s = 1 THEN {<<1, 2>>, <<1, 4>>}
           ELSE {<<2, 3>>, <<1, 3>>, <<NoUid, 3>>}

\* Calendar 2 never changes: one event.  The server's sync token counts the
\* changes of the whole account.
Cal2Events == <<RemoteEvent(9, 3)>>

\* events of the given slots, in slot order
SlotEvents(rem, slots) ==
  LET s == SortedIds(slots)
  IN  [i \in 1..Len(s) |-> RemoteEvent(rem[s[i]].uid, rem[s[i]].shape)]

\* The relay's fetchEvents: REPORT calendar-query with the time-range filter.
ServerFullFetch(c, rem) ==
  IF c = 2 THEN Cal2Events
  ELSE SlotEvents(rem, {s \in Slots : rem[s].present /\ InWindow(rem[s].shape)})

\* the status a server gives the entry of a removed resource
GoneStatuses == {404, 410}

Entry(slot, status, data) == [slot |-> slot, status |-> status, data |-> data]

\* The server's answer to the sync-collection REPORT: one entry of status 200
\* for each resource changed after the token, carrying calendar-data when the
\* server inlines it; one entry of status `gone` when a resource was removed
\* after the token; and the next token.
ServerMultistatus(c, rem, ver, dver, token, gone, inline) ==
  [entries |-> IF c = 2 THEN {}
               ELSE {Entry(s, 200, inline) :
                       s \in {t \in Slots : rem[t].present /\ rem[t].ver > token}}
                    \cup (IF dver > token THEN {Entry(0, gone, FALSE)} ELSE {}),
   syncToken |-> ver]

\* the resources whose calendar-data element is in the answer
parseEventsFromXML(entries) == {x.slot : x \in {y \in entries : y.data}}

\* the hrefs of the entries whose status is 200 OK
extractChangedHrefs(entries) == {x.slot : x \in {y \in entries : y.status = 200}}

\* GET of each href; one that fails is left out (continue)
fetchEventsByHrefs(hrefs, lost) == hrefs \ lost

\* Variant that takes only a 404 entry for a removal.
fetchSyncCollection_Only404(ms, rem, lost) ==
  LET parsed  == parseEventsFromXML(ms.entries)
      fetched == fetchEventsByHrefs(extractChangedHrefs(ms.entries), lost)
  IN  [events |-> SlotEvents(rem, IF parsed = {} /\ fetched # {} THEN fetched ELSE parsed),
       syncToken |-> ms.syncToken,
       hasDeletions |-> \E x \in ms.entries : x.status = 404]

\* The relay's fetchSyncCollection on the server's answer ms: the events of
\* the calendar-data elements or, when there is none, of the hrefs fetched one
\* by one; the next token; hasDeletions when a 404 or 410 status is in the
\* answer.
fetchSyncCollection(ms, rem, lost) ==
  LET parsed  == parseEventsFromXML(ms.entries)
      fetched == fetchEventsByHrefs(extractChangedHrefs(ms.entries), lost)
  IN  [events |-> SlotEvents(rem, IF parsed = {} /\ fetched # {} THEN fetched ELSE parsed),
       syncToken |-> ms.syncToken,
       hasDeletions |-> \E x \in ms.entries : x.status \in GoneStatuses]

\* The relay's syncCollection when the server inlines calendar-data.
ServerSyncCollection(c, rem, ver, dver, token) ==
  fetchSyncCollection(ServerMultistatus(c, rem, ver, dver, token, 404, TRUE), rem, {})

ServerToken(c, ver) == ver

NoTokens == [u \in Urls |-> NoToken]

\* tokens left by syncs of the other account
OtherTokens == [u \in Urls |-> IF u.slash THEN NoToken ELSE u.cal]

\* the storage before the first pass of the engine's account
InitStorage ==
  [k \in StorageKeys |-> IF k = getSyncTokenStorageKey(TestConfig) THEN NoTokens
                                                                   ELSE OtherTokens]

\* readSyncTokens: the map stored under the credentials' key
readSyncTokens(storage, config) == storage[getSyncTokenStorageKey(config)]

\* writeSyncTokens: setItem under the credentials' key
writeSyncTokens(storage, config, tokens) ==
  [storage EXCEPT ![getSyncTokenStorageKey(config)] = tokens]

IdleCall ==
  [pc |-> "idle", sel |-> <<>>, idx |-> 0, calendarUrl |-> Url(1, FALSE),
   syncTokens |-> NoTokens, syncedCount |-> 0, skippedCount |-> 0, deletedCount |-> 0,
   currentEventUids |-> {}, calendarSyncedCount |-> 0, calendarSkippedCount |-> 0,
   usedFullFetch |-> FALSE, syncResult |-> FALSE, syncResultToken |-> NoToken,
   eventsToProcess |-> <<>>, pos |-> 0]

\* Top of the for loop for the next selected URL, up to its first await; after
\* the last URL the call is about to write the tokens and return.
NextCalendar(c) ==
  LET i   == c.idx + 1
      url == normalizeCalendarUrl(c.sel[i])
  IN  IF i > Len(c.sel)
        THEN [c EXCEPT !.pc = "write", !.idx = i]
        ELSE [c EXCEPT !.idx = i, !.calendarUrl = url,
                       !.currentEventUids = {},
                       !.calendarSyncedCount = 0, !.calendarSkippedCount = 0,
                       !.syncResult = FALSE, !.syncResultToken = NoToken,
                       !.eventsToProcess = <<>>, !.pos = 0,
                       !.usedFullFetch = (c.syncTokens[url] = NoToken),
                       !.pc = IF c.syncTokens[url] # NoToken
                                THEN "syncCollection" ELSE "fetchEvents"]

\* Variant that runs the deletion step whichever way the events were fetched.
AfterReconcile_AlwaysDeletes(c) ==
  [c EXCEPT !.syncedCount = @ + c.calendarSyncedCount,
            !.skippedCount = @ + c.calendarSkippedCount,
            !.calendarSyncedCount = 0,
            !.calendarSkippedCount = 0,
            !.pc = "delete"]

\* Variant that never keeps the token of an incremental result.
AfterReconcile_DropsToken(c) ==
  LET d == [c EXCEPT !.syncedCount = @ + c.calendarSyncedCount,
                     !.skippedCount = @ + c.calendarSkippedCount,
                     !.calendarSyncedCount = 0,
                     !.calendarSkippedCount = 0]
  IN  IF d.usedFullFetch THEN [d EXCEPT !.pc = "delete"] ELSE NextCalendar(d)

\* After the for loop over the fetched events: add the calendar's counts,
\* then either await deleteRemovedEvents (full fetch) or keep the token of the
\* incremental result and go on to the next calendar.
AfterReconcile(c) ==
  LET d == [c EXCEPT !.syncedCount = @ + c.calendarSyncedCount,
                     !.skippedCount = @ + c.calendarSkippedCount,
                     !.calendarSyncedCount = 0,     \* not read again in this
                     !.calendarSkippedCount = 0]    \* iteration
  IN  IF d.usedFullFetch
        THEN [d EXCEPT !.pc = "delete"]
        ELSE NextCalendar(
               IF d.syncResult /\ d.syncResultToken # NoToken
                 THEN [d EXCEPT !.syncTokens[d.calendarUrl] = d.syncResultToken]
                 ELSE d)

\* Variant in which a failing calendar ends the loop.
CalendarFailed_EndsLoop(c) == [c EXCEPT !.pc = "write", !.idx = Len(c.sel) + 1]

\* Variant in which a failing calendar loses its token.
CalendarFailed_DropsToken(c) ==
  NextCalendar([c EXCEPT !.syncTokens[c.calendarUrl] = NoToken])

\* catch (error) { console.error(...) } of the calendar's try block
CalendarFailed(c) == NextCalendar(c)

\* Variant that runs the deletion step of a full fetch before the loop.
StartReconcile_DeletesFirst(c, events) ==
  IF Len(events) = 0
    THEN AfterReconcile([c EXCEPT !.eventsToProcess = events])
  ELSE IF c.usedFullFetch
    THEN [c EXCEPT !.eventsToProcess = events, !.pos = 1, !.pc = "delete"]
  ELSE [c EXCEPT !.eventsToProcess = events, !.pos = 1, !.pc = "reconcile"]

\* eventsToProcess has been assigned: run the loop or skip it when empty.
StartReconcile(c, events) ==
  IF Len(events) = 0
    THEN AfterReconcile([c EXCEPT !.eventsToProcess = events])
    ELSE [c EXCEPT !.eventsToProcess = events, !.pos = 1, !.pc = "reconcile"]

Op(name, p, note) == [name |-> name, p |-> p, note |-> note, val |-> 0]

\* lastOp of a call that returned carries the value returned
Returned(p, note, v) == [name |-> "return", p |-> p, note |-> note, val |-> v]

\* a request may fail while the budget of failures lasts
Fails(failed) ==
  /\ failed => faults < MaxFaults
  /\ faults' = IF failed THEN faults + 1 ELSE faults

\* the frame a new call runs in
FreeFrame(p) == call[p].pc = "idle" /\ \A q \in Procs : q < p => call[q].pc # "idle"

\* hist: rows created / update calls that succeeded / rows removed by the
\* pass; clean: no failed request and no remote change since the pass began;
\* repeat: the pass began right after a clean pass over the same selection;
\* failedBatches: the batches of the last deletion step whose delete failed;
\* failedCals: the calendars whose iteration the pass left through the catch
\* block.
NewHist(sel, repeat) ==
  [created |-> 0, updated |-> 0, deleted |-> 0, clean |-> TRUE, sel |-> sel, repeat |-> repeat,
   failedBatches |-> {}, failedCals |-> {}]

Ids(st) == {r.id : r \in st}

\* ---------------------------------------------------------------------
\* syncSelectedCalendars, one action per stretch between two awaits
\* ---------------------------------------------------------------------
Selections ==
  { <<Url(1, TRUE)>>,
    <<Url(2, FALSE), Url(1, FALSE)>> }

\* Variant of the gate that lets every call through.
GateRefuses_Never(flag) == FALSE

\* if (syncInFlight) return 0;
GateRefuses(flag) == flag

\* Variant that returns the count even when events were deleted.
ReturnValue_CountOnly(c) == c.syncedCount

\* return deletedCount > 0 ? -1 : syncedCount
ReturnValue(c) == IF c.deletedCount > 0 THEN -1 ELSE c.syncedCount

\* Variant that keeps an incremental result that reports deletions.
KeepsSyncResult_IgnoresDeletions(ok, R) == ok

\* syncResult survives: the call succeeded and reports no deletions
KeepsSyncResult(ok, R) == ok /\ ~R.hasDeletions

\* A call by p that finds a pass in flight returns 0 at once.
CallDropped(p) ==
  /\ FreeFrame(p)
  /\ GateRefuses(syncInFlight)
  /\ lastOp' = Returned(p, "dropped", 0)
  /\ UNCHANGED <<sideVars, store, nextId, remote, srvVer, delVer, localStorage, syncInFlight,
                 call, passes, faults, hist>>

\* A call by p that takes the flag, reads the token map and issues the first
\* request of the first calendar.
CallStarted(p, sel) ==
  /\ FreeFrame(p)
  /\ ~GateRefuses(syncInFlight)
  /\ passes < MaxPasses
  /\ syncInFlight' = TRUE
  /\ passes' = passes + 1
  /\ call' = [call EXCEPT ![p] =
                NextCalendar([IdleCall EXCEPT !.sel = sel,
                                !.syncTokens = readSyncTokens(localStorage, TestConfig)])]
  /\ hist' = NewHist(sel, passes >= 1 /\ hist.clean /\ hist.sel = sel)
  /\ lastOp' = Op("call", p, "started")
  /\ UNCHANGED <<sideVars, store, nextId, remote, srvVer, delVer, localStorage, faults>>

\* The answer to fetchSyncCollection (ok = FALSE: the relay call throws).
\* The server marks a removal with `gone`, inlines calendar-data or not, and
\* the relay's GETs of the hrefs in `lost` fail.
SyncCollectionResponse(p, ok, gone, inline, lost) ==
  LET c  == call[p]
      ms == ServerMultistatus(c.calendarUrl.cal, remote, srvVer, delVer,
                              c.syncTokens[c.calendarUrl], gone, inline)
      R  == fetchSyncCollection(ms, remote, lost)
  IN  /\ c.pc = "syncCollection"
      /\ lost \subseteq (IF ok /\ ~inline THEN extractChangedHrefs(ms.entries) ELSE {})
      /\ Fails(~ok \/ lost # {})
      /\ call' = [call EXCEPT ![p] =
                    IF KeepsSyncResult(ok, R)
                      THEN StartReconcile([c EXCEPT !.syncResult = TRUE,
                                                    !.syncResultToken = R.syncToken],
                                          R.events)
                      ELSE [c EXCEPT !.usedFullFetch = TRUE, !.pc = "fetchEvents"]]
      /\ hist' = [hist EXCEPT !.clean = @ /\ ok /\ lost = {}]
      /\ lastOp' = Op("syncCollection", p,
                      IF ~ok THEN "failed"
                      ELSE IF R.hasDeletions THEN "hasDeletions" ELSE "incremental")
      /\ UNCHANGED <<sideVars, store, nextId, remote, srvVer, delVer, localStorage, syncInFlight,
                     passes>>

\* The answer to fetchCalendarEvents (ok = FALSE: it throws, the calendar's
\* catch block logs it and the loop goes on).
FetchEventsResponse(p, ok) ==
  LET c == call[p]
  IN  /\ c.pc = "fetchEvents"
      /\ Fails(~ok)
      /\ call' = [call EXCEPT ![p] =
                    IF ok THEN StartReconcile(c, ServerFullFetch(c.calendarUrl.cal, remote))
                          ELSE CalendarFailed(c)]
      /\ hist' = [hist EXCEPT !.clean = @ /\ ok,
                              !.failedCals = IF ok THEN @ ELSE @ \cup {c.calendarUrl.cal}]
      /\ lastOp' = Op("fetchEvents", p, IF ok THEN "fetched" ELSE "calendar-failed")
      /\ UNCHANGED <<sideVars, store, nextId, remote, srvVer, delVer, localStorage, syncInFlight,
                     passes>>

\* Variant in which a store call that fails throws out of the calendar's try
\* block.
EventDone_FailureAborts(d, fault) ==
  IF fault # "none" THEN CalendarFailed(d)
  ELSE IF d.pos > Len(d.eventsToProcess) THEN AfterReconcile(d) ELSE d

\* End of one iteration of the loop over eventsToProcess.  The store calls
\* report a failure in their result (false, null), nothing is thrown: the
\* loop takes the next event, or ends.
EventDone(d, fault) ==
  IF d.pos > Len(d.eventsToProcess) THEN AfterReconcile(d) ELSE d

\* Reconciliation of eventsToProcess[pos].
ReconcileStep(p, fault) ==
  LET c   == call[p]
      e   == c.eventsToProcess[c.pos]
      ms  == DetailMatches(store, e, c.calendarUrl)
  IN  /\ c.pc = "reconcile"
      /\ Fails(fault # "none")
      /\ \E m \in (IF ms = {} THEN {Row(0, NoUid, c.calendarUrl, e, "caldav")} ELSE ms) :
           LET out == ReconcileEvent(store, nextId, e, c.calendarUrl, fault, m)
               d   == [c EXCEPT !.currentEventUids = IF e.uid # NoUid THEN @ \cup {e.uid} ELSE @,
                                !.calendarSyncedCount = @ + out.synced,
                                !.calendarSkippedCount = @ + out.skipped,
                                !.pos = @ + 1]
           IN  /\ store' = out.store
               /\ nextId' = IF out.created THEN nextId + 1 ELSE nextId
               /\ call' = [call EXCEPT ![p] =
                             EventDone(d, fault)]
               /\ hist' = [hist EXCEPT !.created = @ + Cardinality(Ids(out.store) \ Ids(store)),
                                       !.updated = @ + (IF out.note = "updated" THEN 1 ELSE 0),
                                       !.clean = @ /\ fault = "none"]
               /\ lastOp' = Op("reconcile", p, out.note)
      /\ UNCHANGED <<sideVars, remote, srvVer, delVer, localStorage, syncInFlight, passes>>

\* deleteRemovedEvents after a full fetch.
DeleteStep(p, loadOk, failed) ==
  LET c   == call[p]
      res == deleteRemovedEvents(store, c.calendarUrl, c.currentEventUids,
                                 c.eventsToProcess, loadOk, failed)
  IN  /\ c.pc = "delete"
      /\ Fails(~loadOk \/ failed # {})
      /\ store' = res.store
      /\ call' = [call EXCEPT ![p] = [c EXCEPT !.deletedCount = @ + res.deleted,
                                               !.pc = "getSyncToken"]]
      /\ hist' = [hist EXCEPT !.deleted = @ + Cardinality(Ids(store) \ Ids(res.store)),
                              !.clean = @ /\ loadOk /\ failed = {},
                              !.failedBatches = res.failed]
      /\ lastOp' = Op("delete", p,
                      IF EmptyFetch(c.eventsToProcess, c.currentEventUids) THEN "empty-fetch"
                      ELSE IF ~loadOk THEN "load-failed"
                      ELSE IF res.deleted > 0 THEN "deleted"
                      ELSE IF toDelete(store, c.calendarUrl, c.currentEventUids, c.eventsToProcess) = {}
                        THEN "nothing-to-delete"
                      ELSE IF res.failed # {} THEN "batch-failed" ELSE "runaway-abort")
      /\ UNCHANGED <<sideVars, nextId, remote, srvVer, delVer, localStorage, syncInFlight, passes>>

\* The answer to fetchSyncToken after a full fetch (NoToken: none exposed or
\* the request failed, which fetchSyncToken turns into null).
TokenResponse(p, tok) ==
  LET c == call[p]
  IN  /\ c.pc = "getSyncToken"
      /\ tok \in {NoToken, ServerToken(c.calendarUrl.cal, srvVer)}
      /\ call' = [call EXCEPT ![p] =
                    NextCalendar(IF tok # NoToken
                                   THEN [c EXCEPT !.syncTokens[c.calendarUrl] = tok]
                                   ELSE c)]
      /\ lastOp' = Op("getSyncToken", p, IF tok = NoToken THEN "null" ELSE "token")
      /\ UNCHANGED <<sideVars, store, nextId, remote, srvVer, delVer, localStorage, syncInFlight,
                     passes, faults, hist>>

\* Variant that releases the flag after the return statement only, not in a
\* finally block.
FinallyFlag_OnReturnOnly(writeOk) == ~writeOk

\* finally { syncInFlight = false; }: runs whether the try block returned or
\* threw
FinallyFlag(writeOk) == FALSE

\* writeSyncTokens, the return statement and the finally block
\* (writeOk = FALSE: localStorage.setItem throws).
Finish(p, writeOk) ==
  LET c == call[p]
  IN  /\ c.pc = "write"
      /\ Fails(~writeOk)
      /\ localStorage' = IF writeOk THEN writeSyncTokens(localStorage, TestConfig, c.syncTokens)
                                    ELSE localStorage
      /\ syncInFlight' = FinallyFlag(writeOk)
      /\ call' = [call EXCEPT ![p] = IdleCall]
      /\ hist' = [hist EXCEPT !.clean = @ /\ writeOk]
      /\ lastOp' = IF writeOk THEN Returned(p, "finished", ReturnValue(c))
                              ELSE Op("throw", p, "write-failed")
      /\ UNCHANGED <<sideVars, store, nextId, remote, srvVer, delVer, passes>>

\* ---------------------------------------------------------------------
\* Other clients changing calendar 1 on the server.  The engine observes the
\* server only in its three requests, so changes are taken between two
\* passes or between a pass's full fetch and its token request; the state
\* of the server before the first pass is an initial state.
\* ---------------------------------------------------------------------
ServerObservable ==
  /\ passes >= 1
  /\ \A p \in Procs : \/ call[p].pc = "idle"
                      \/ call[p].pc = "getSyncToken" /\ call[p].calendarUrl.cal = 1

RemotePut(s, uid, shape) ==
  /\ ServerObservable
  /\ srvVer <= MaxRemoteChanges
  /\ <<uid, shape>> \in SlotMenu(s)
  /\ ~(remote[s].present /\ remote[s].uid = uid /\ remote[s].shape = shape)
  /\ remote' = [remote EXCEPT ![s] = Resource(uid, shape, srvVer + 1)]
  /\ srvVer' = srvVer + 1
  /\ hist' = [hist EXCEPT !.clean = FALSE]
  /\ lastOp' = Op("remotePut", 0, "put")
  /\ UNCHANGED <<sideVars, store, nextId, delVer, localStorage, syncInFlight, call, passes, faults>>

RemoteDelete(s) ==
  /\ ServerObservable
  /\ srvVer <= MaxRemoteChanges
  /\ remote[s].present
  /\ remote' = [remote EXCEPT ![s] = Absent]
  /\ srvVer' = srvVer + 1
  /\ delVer' = srvVer + 1
  /\ hist' = [hist EXCEPT !.clean = FALSE]
  /\ lastOp' = Op("remoteDelete", 0, "delete")
  /\ UNCHANGED <<sideVars, store, nextId, localStorage, syncInFlight, call, passes, faults>>

\* ---------------------------------------------------------------------
\* Initial states: rows left by earlier versions and earlier syncs, and the
\* server's calendar 1.
\* ---------------------------------------------------------------------
LegacyNoUid  == Row(1, NoUid, Url(1, FALSE), Fields(3), "caldav")
LegacySlash  == Row(2, 1, Url(1, TRUE), Fields(1), "caldav")
ManualRow    == Row(3, NoUid, Url(1, FALSE), Fields(1), "manual")
SyncedRow    == Row(4, 1, Url(1, FALSE), Fields(1), "caldav")
LegacyAllDay == Row(1, NoUid, Url(1, FALSE), Fields(1), "caldav")
FirstFreeId  == SyncedRow.id + 1

InitStores ==
  { {}, {LegacyNoUid, ManualRow}, {LegacySlash}, {SyncedRow}, {LegacyAllDay} }

InitRemotes ==
  { [s \in Slots |-> Absent],
    [s \in Slots |-> IF s = 1 THEN Resource(1, 1, 1) ELSE Resource(2, 3, 1)],
    [s \in Slots |-> IF s = 1 THEN Resource(1, 2, 1) ELSE Absent],
    [s \in Slots |-> IF s = 1 THEN Resource(1, 4, 1) ELSE Resource(NoUid, 3, 1)] }

Init ==
  /\ store \in InitStores
  /\ nextId = FirstFreeId
  /\ remote \in InitRemotes
  /\ srvVer = 1
  /\ delVer = 0
  /\ localStorage = InitStorage
  /\ syncInFlight = FALSE
  /\ call = [p \in Procs |-> IdleCall]
  /\ passes = 0
  /\ faults = 0
  /\ hist = NewHist(<<>>, FALSE)
  /\ lastOp = Op("init", 0, "init")
  /\ SideAtRest

Next ==
  \/ \E p \in Procs : CallDropped(p)
  \/ \E p \in Procs, sel \in Selections : CallStarted(p, sel)
  \/ \E p \in Procs, ok \in BOOLEAN, gone \in GoneStatuses, inline \in BOOLEAN,
          lost \in SUBSET Slots : SyncCollectionResponse(p, ok, gone, inline, lost)
  \/ \E p \in Procs, ok \in BOOLEAN : FetchEventsResponse(p, ok)
  \/ \E p \in Procs, fault \in Faults : ReconcileStep(p, fault)
  \/ \E p \in Procs, loadOk \in BOOLEAN :
       \E failed \in SUBSET (1..NumBatches(Cardinality(toDelete(store, call[p].calendarUrl,
                               call[p].currentEventUids, call[p].eventsToProcess)))) :
         DeleteStep(p, loadOk, failed)
  \/ \E p \in Procs, tok \in 0..(MaxRemoteChanges + 1) : TokenResponse(p, tok)
  \/ \E p \in Procs, writeOk \in BOOLEAN : Finish(p, writeOk)
  \/ \E s \in Slots, uid \in {NoUid} \cup Uids, shape \in ShapeIds : RemotePut(s, uid, shape)
  \/ \E s \in Slots : RemoteDelete(s)

Spec == Init /\ [][Next]_vars

\* ---------------------------------------------------------------------
\* The deletion step on calendars of every size up to MaxBulk.  A behaviour
\* starts where a pass over calendar 1 has reconciled a full fetch and is
\* about to await deleteRemovedEvents: the store held n synced events, the
\* fetch returned the first k of them unchanged and, when fresh, one event
\* more that the loop has just created.  (The server's calendar is given by
\* the fetched list; the variable remote plays no part.)
\* ---------------------------------------------------------------------
BulkUid(i) == 100 + i

BulkStore(n) == {Row(i, BulkUid(i), Url(1, FALSE), Fields(1), "caldav") : i \in 1..n}

FreshEvent == RemoteEvent(1, 3)

BulkFetched(k, fresh) ==
  [i \in 1..k |-> RemoteEvent(BulkUid(i), 1)] \o (IF fresh THEN <<FreshEvent>> ELSE <<>>)

BulkCall(k, fresh) ==
  LET events == BulkFetched(k, fresh)
  IN  [IdleCall EXCEPT !.pc = "delete", !.sel = <<Url(1, FALSE)>>, !.idx = 1,
                       !.calendarUrl = Url(1, FALSE), !.usedFullFetch = TRUE,
                       !.eventsToProcess = events, !.pos = Len(events) + 1,
                       !.currentEventUids = {events[i].uid : i \in 1..Len(events)},
                       !.syncedCount = IF fresh THEN 1 ELSE 0,
                       !.skippedCount = k]

DelInit ==
  \E n \in 0..MaxBulk, fresh \in BOOLEAN :
    \E k \in 0..n :
      /\ store = BulkStore(n) \cup
                   (IF fresh THEN {createEvent(n + 1, FreshEvent, FreshEvent.uid, Url(1, FALSE), "caldav")}
                             ELSE {})
      /\ nextId = n + 2
      /\ remote = [s \in Slots |-> Absent]
      /\ srvVer = 1
      /\ delVer = 0
      /\ localStorage = InitStorage
      /\ syncInFlight = TRUE
      /\ call = [p \in Procs |-> IF p = 1 THEN BulkCall(k, fresh) ELSE IdleCall]
      /\ passes = 1
      /\ faults = 0
      /\ hist = [NewHist(<<Url(1, FALSE)>>, FALSE) EXCEPT !.created = IF fresh THEN 1 ELSE 0]
      /\ lastOp = IF fresh THEN Op("reconcile", 1, "created")
                  ELSE IF k > 0 THEN Op("reconcile", 1, "unchanged")
                  ELSE Op("fetchEvents", 1, "fetched")
      /\ SideAtRest

DelNext ==
  \/ \E p \in Procs, loadOk \in BOOLEAN :
       \E failed \in SUBSET (1..NumBatches(Cardinality(toDelete(store, call[p].calendarUrl,
                               call[p].currentEventUids, call[p].eventsToProcess)))) :
         DeleteStep(p, loadOk, failed)
  \/ \E p \in Procs, tok \in 0..(MaxRemoteChanges + 1) : TokenResponse(p, tok)
  \/ \E p \in Procs, writeOk \in BOOLEAN : Finish(p, writeOk)

DelSpec == DelInit /\ [][DelNext]_vars

\* ---------------------------------------------------------------------
\* The deletion step on a calendar large enough for three batches: the store
\* holds MaxRows synced events and the full fetch returned the first k of
\* them, so the other MaxRows - k are candidates.
\* ---------------------------------------------------------------------
BatchInit ==
  \E k \in 0..MaxRows :
    /\ store = BulkStore(MaxRows)
    /\ nextId = MaxRows + 1
    /\ remote = [s \in Slots |-> Absent]
    /\ srvVer = 1
    /\ delVer = 0
    /\ localStorage = InitStorage
    /\ syncInFlight = TRUE
    /\ call = [p \in Procs |-> IF p = 1 THEN BulkCall(k, FALSE) ELSE IdleCall]
    /\ passes = 1
    /\ faults = 0
    /\ hist = NewHist(<<Url(1, FALSE)>>, FALSE)
    /\ lastOp = IF k > 0 THEN Op("reconcile", 1, "unchanged")
                         ELSE Op("fetchEvents", 1, "fetched")
    /\ SideAtRest

BatchSpec == BatchInit /\ [][DelNext]_vars

\* ---------------------------------------------------------------------
\* The codec on its own: an event of the client is encoded in a runtime
\* whose zone is tz, and the text is decoded by the relay's parser.
\* ---------------------------------------------------------------------
EngineAtRest ==
  /\ store = {}
  /\ nextId = FirstFreeId
  /\ remote = [s \in Slots |-> Absent]
  /\ srvVer = 1
  /\ delVer = 0
  /\ localStorage = InitStorage
  /\ syncInFlight = FALSE
  /\ call = [p \in Procs |-> IdleCall]
  /\ passes = 0
  /\ faults = 0
  /\ hist = NewHist(<<>>, FALSE)
  /\ lastOp = Op("init", 0, "init")

\* New York (winter), UTC, Seoul
TzOffsets == {0 - 300, 0, 540}

CodecDates ==
  { Day(2024, 1, 29), Day(2024, 1, 31), Day(2024, 2, 29), Day(2023, 2, 28),
    Day(2023, 12, 31), Day(2024, 1, 1) }

CodecTimes == {NoTime, Time(0, 30), Time(10, 0), Time(23, 30)}

CodecEvents ==
  { Event(d, t, s, e, u) : d \in CodecDates, t \in {"Meeting", ""},
                           s \in CodecTimes, e \in CodecTimes,
                           u \in {"uid-123", None} }

Encode ==
  /\ codec.pc = "idle"
  /\ codec' = [codec EXCEPT !.pc = "encoded",
                            !.text = serializeEventToICS(codec.event, codec.tz)]
  /\ UNCHANGED <<engineVars, client, http, relay, dav>>

Decode ==
  /\ codec.pc = "encoded"
  /\ codec' = [codec EXCEPT !.pc = "decoded", !.parsed = parseICalEvent(codec.text)]
  /\ UNCHANGED <<engineVars, client, http, relay, dav>>

IcsInit ==
  /\ EngineAtRest
  /\ RelayPathAtRest
  /\ codec \in {CodecOf(ev, tz) : ev \in CodecEvents, tz \in TzOffsets}

IcsNext == Encode \/ Decode

IcsSpec == IcsInit /\ [][IcsNext]_vars

\* ---------------------------------------------------------------------
\* The relay path: a client function builds a request body and hands it to
\* invokeCalDavProxy; the relay (Deno.serve) validates the bearer and the
\* body and talks to the CalDAV server; the answer travels back.  Requests
\* also reach the relay from callers other than this client.
\* ---------------------------------------------------------------------
MaxCalls == 2

\* what getFunctionHeaders yields: no headers (null), a token the auth service
\* will reject, or one it accepts
Bearers == {"none", "stale", "valid"}

CalUrl == "https://caldav.example.com/cal1/"

Credentials(config, action) ==
  [serverUrl |-> config.serverUrl, username |-> config.username,
   password |-> config.password, action |-> action]

\* JSON.stringify leaves out a key whose value is undefined
WithEtag(body, etag) == IF etag = NoEtag THEN body ELSE body @@ [etag |-> etag]

\* a call of a client function: its name, the UID and entity tag it was given
\* or chose, the body it sends; given: the caldavUid of the event passed in
ClientCall(op, uid, etag, body) ==
  [op |-> op, uid |-> uid, etag |-> etag, body |-> body, given |-> None]

createCalDavEvent(config, calendarUrl, event, tz) ==
  LET uid == IF event.caldavUid \in {None, ""} THEN CreatedUid ELSE event.caldavUid
  IN  [ClientCall("createCalDavEvent", uid, NoEtag,
         Credentials(config, "createEvent") @@
         [calendarUrl |-> calendarUrl, eventUid |-> uid,
          eventData |-> serializeEventToICS([event EXCEPT !.caldavUid = uid], tz)])
        EXCEPT !.given = event.caldavUid]

\* Variant that serializes the event as it was passed in.
updateCalDavEvent_OwnUid(config, calendarUrl, uid, event, etag, tz) ==
  [ClientCall("updateCalDavEvent", uid, etag,
     WithEtag(Credentials(config, "updateEvent") @@
              [calendarUrl |-> calendarUrl, eventUid |-> uid,
               eventData |-> serializeEventToICS(event, tz)],
              etag))
    EXCEPT !.given = event.caldavUid]

updateCalDavEvent(config, calendarUrl, uid, event, etag, tz) ==
  [ClientCall("updateCalDavEvent", uid, etag,
     WithEtag(Credentials(config, "updateEvent") @@
              [calendarUrl |-> calendarUrl, eventUid |-> uid,
               eventData |-> serializeEventToICS([event EXCEPT !.caldavUid = uid], tz)],
              etag))
    EXCEPT !.given = event.caldavUid]

deleteCalDavEvent(config, calendarUrl, uid, etag) ==
  ClientCall("deleteCalDavEvent", uid, etag,
    WithEtag(Credentials(config, "deleteEvent") @@
             [calendarUrl |-> calendarUrl, eventUid |-> uid], etag))

fetchSyncToken(config, calendarUrl) ==
  ClientCall("fetchSyncToken", "", NoEtag,
    Credentials(config, "getSyncToken") @@ [calendarUrl |-> calendarUrl])

getCalendars(config) ==
  ClientCall("getCalendars", "", NoEtag, Credentials(config, "listCalendars"))

TestEvent == Event(Day(2024, 1, 29), "Test Meeting", Time(10, 0), Time(11, 0), None)

\* the calls the client makes in the model (the runtime's zone is UTC)
ClientCalls ==
  { createCalDavEvent(TestConfig, CalUrl, TestEvent, 0),
    createCalDavEvent(TestConfig, CalUrl, [TestEvent EXCEPT !.caldavUid = "uid-123"], 0),
    fetchSyncToken(TestConfig, CalUrl),
    getCalendars(TestConfig) }
  \cup { updateCalDavEvent(TestConfig, CalUrl, "uid-123", TestEvent, e, 0) :
           e \in {NoEtag, Etag(1, 0), Etag(1, 1), Etag(9, 0)} }
  \cup { updateCalDavEvent(TestConfig, CalUrl, "uid-123",
                           [TestEvent EXCEPT !.caldavUid = "uid-stale"], NoEtag, 0),
         updateCalDavEvent(TestConfig, CalUrl, "", TestEvent, NoEtag, 0) }
  \cup { deleteCalDavEvent(TestConfig, CalUrl, "uid-123", e) : e \in {NoEtag, Etag(1, 0)} }

\* what the relay reads from a key that is absent, and what it takes for absent
Blank(k) ==
  IF k = "eventData" THEN <<>>
  ELSE IF k = "syncToken" THEN NoToken
  ELSE IF k = "etag" THEN NoEtag ELSE ""

Field(body, k) == IF k \in DOMAIN body THEN body[k] ELSE Blank(k)

\* !value is false
Given(body, k) == Field(body, k) # Blank(k)

Actions ==
  {"listCalendars", "fetchEvents", "getSyncToken", "syncCollection",
   "createEvent", "updateEvent", "deleteEvent"}

RequiredOf(action) ==
  CASE action \in {"fetchEvents", "getSyncToken"} -> {"calendarUrl"}
    [] action = "syncCollection" -> {"calendarUrl", "syncToken"}
    [] action \in {"createEvent", "updateEvent"} -> {"calendarUrl", "eventData", "eventUid"}
    [] action = "deleteEvent" -> {"calendarUrl", "eventUid"}
    [] OTHER -> {}

\* Variant that checks the credentials and the action only.
Rejects_CredentialsOnly(body) ==
  \/ \E k \in {"serverUrl", "username", "password", "action"} : ~Given(body, k)
  \/ Field(body, "action") \notin Actions

\* the 400 answers of the handler
Rejects(body) ==
  \/ \E k \in {"serverUrl", "username", "password", "action"} : ~Given(body, k)
  \/ Field(body, "action") \notin Actions
  \/ \E k \in RequiredOf(Field(body, "action")) : ~Given(body, k)

\* Variant that sends no precondition.
IfMatchOf_Never(etag) == NoEtag

\* if (etag) headers['If-Match'] = `"${etag}"`
IfMatchOf(etag) == IF etag # NoEtag THEN Etag(etag.tag, etag.quotes + 1) ELSE NoEtag

\* the handler's branch on the action, up to the first CalDAV request
FirstRequest(body) ==
  LET action == Field(body, "action")
      write  == action \in {"createEvent", "updateEvent", "deleteEvent"}
  IN  [pc |-> CASE action = "listCalendars" -> "home"
                [] action \in {"fetchEvents", "syncCollection"} -> "report"
                [] action = "getSyncToken" -> "token"
                [] action = "deleteEvent" -> "delete"
                [] OTHER -> "put",
       method |-> CASE action \in {"listCalendars", "getSyncToken"} -> "PROPFIND"
                    [] action \in {"fetchEvents", "syncCollection"} -> "REPORT"
                    [] action = "deleteEvent" -> "DELETE"
                    [] OTHER -> "PUT",
       ifMatch |-> IF write THEN IfMatchOf(Field(body, "etag")) ELSE NoEtag]

Ok(status) == status \in 200..299

\* The server's answers to a conditional request: the header must be the
\* resource's current entity tag in one pair of quotes.
PreconditionHolds(h, cur) == h = NoEtag \/ (cur # 0 /\ h = Etag(cur, 1))

PutStatus(h, cur, fault) ==
  IF fault THEN 500
  ELSE IF ~PreconditionHolds(h, cur) THEN 412
  ELSE IF cur = 0 THEN 201 ELSE 204

\* strict: a server that answers a conditional DELETE of a missing resource
\* with 412 rather than 404
DeleteStatus(h, cur, fault, strict) ==
  IF fault THEN 500
  ELSE IF cur = 0 THEN (IF strict /\ h # NoEtag THEN 412 ELSE 404)
  ELSE IF ~PreconditionHolds(h, cur) THEN 412 ELSE 204

\* Variant that takes only a 2xx answer for success.
DeleteSucceeds_OkOnly(status) == Ok(status)

\* !(!response.ok && response.status !== 404)
DeleteSucceeds(status) == Ok(status) \/ status = 404

\* Variant that retries whatever the failure.
ShouldRetry_AnyFailure(status) == TRUE

\* retryOnUnauthorized && error?.status === 401
ShouldRetry(status) == status = 401

\* Variant of fetchSyncToken without its catch block.
OpResult_TokenThrows(op, ok, status, data) ==
  [out |-> IF ok THEN "returned" ELSE "thrown", status |-> IF ok THEN 0 ELSE status,
   value |-> IF ok THEN data ELSE NoData]

\* What the client function makes of invokeCalDavProxy's outcome:
\* fetchSyncToken catches everything and returns the token or null,
\* getCalendars throws on an empty list, the others pass it on.
OpResult(op, ok, status, data) ==
  IF op = "fetchSyncToken"
    THEN [out |-> "returned", status |-> 0,
          value |-> IF ok THEN [NoData EXCEPT !.syncToken = data.syncToken] ELSE NoData]
  ELSE IF op = "getCalendars" /\ ok /\ data.calendars = 0
    THEN [out |-> "thrown", status |-> 0, value |-> NoData]
  ELSE [out |-> IF ok THEN "returned" ELSE "thrown", status |-> IF ok THEN 0 ELSE status,
        value |-> IF ok THEN data ELSE NoData]

Settle(c, ok, status, data) ==
  LET r == OpResult(c.op, ok, status, data)
  IN  [c EXCEPT !.pc = "done", !.out = r.out, !.status = r.status, !.value = r.value]

Request(peer, bearer, body) ==
  [kind |-> "request", peer |-> peer, bearer |-> bearer, body |-> body,
   status |-> 0, data |-> NoData]

Response(status, data) == [http EXCEPT !.kind = "response", !.status = status, !.data = data]

Quiet == client.pc \in {"idle", "done"} /\ http.kind = "none" /\ client.calls < MaxCalls

\* A client function is called: the body is built, getFunctionHeaders yields
\* h, and the first doFetch is sent - or the call throws for want of a token.
Invoke(c, h) ==
  LET new == [IdleClient EXCEPT !.op = c.op, !.body = c.body, !.uid = c.uid, !.etag = c.etag,
                                !.given = c.given,
                                !.calls = client.calls + 1,
                                !.prev = [op |-> client.op, uid |-> client.uid,
                                          out |-> client.out]]
  IN  /\ Quiet
      /\ IF h = "none"
           THEN /\ client' = Settle(new, FALSE, 0, NoData)
                /\ http' = http
           ELSE /\ client' = [new EXCEPT !.pc = "fetch", !.requests = 1]
                /\ http' = Request("client", h, c.body)
      /\ UNCHANGED <<engineVars, relay, dav, codec>>

\* The answer does not reach the client: fetch rejects, which doFetch passes
\* on as an error without status (status 0 here).
NetworkFails ==
  /\ http.kind = "response" /\ http.peer = "client" /\ http.status # 0
  /\ http' = Response(0, NoData)
  /\ UNCHANGED <<engineVars, client, relay, dav, codec>>

\* doFetch ends.  A 401 of the first doFetch is followed by refreshSession
\* and getFunctionHeaders (h), and by the retry if there are headers;
\* everything else ends the call.
ClientResponse(h) ==
  LET ok == Ok(http.status)
  IN  /\ client.pc = "fetch" /\ http.kind = "response" /\ http.peer = "client"
      /\ IF ~ok /\ client.requests = 1 /\ ShouldRetry(http.status)
           THEN IF h # "none"
                  THEN /\ client' = [client EXCEPT !.refreshes = @ + 1, !.requests = @ + 1]
                       /\ http' = Request("client", h, client.body)
                  ELSE /\ client' = Settle([client EXCEPT !.refreshes = @ + 1],
                                           FALSE, http.status, NoData)
                       /\ http' = NoHttp
           ELSE /\ h = "none"
                /\ client' = Settle(client, ok, http.status, http.data)
                /\ http' = NoHttp
      /\ UNCHANGED <<engineVars, relay, dav, codec>>

\* Requests of other callers: every action's full body, the same with one
\* key left out, and an action the relay does not know.  (The client's last
\* call has returned; what follows is no longer "in a row" with it.)
FullBody(action) ==
  Credentials(TestConfig, action) @@
  [k \in RequiredOf(action) |->
     IF k = "eventData" THEN serializeEventToICS(TestEvent, 0)
     ELSE IF k = "syncToken" THEN 1
     ELSE IF k = "eventUid" THEN "uid-123" ELSE CalUrl]

Without(body, k) == [x \in DOMAIN body \ {k} |-> body[x]]

OtherBodies ==
  {FullBody(a) : a \in Actions \cup {"purge"}}
  \cup {Without(FullBody(a), k) : a \in Actions,
                                 k \in {"action", "calendarUrl", "syncToken",
                                        "eventData", "eventUid"}}

OtherRequest(bearer, body) ==
  /\ Quiet
  /\ client' = [IdleClient EXCEPT !.calls = client.calls + 1]
  /\ http' = Request("other", bearer, body)
  /\ UNCHANGED <<engineVars, relay, dav, codec>>

OtherReceives ==
  /\ http.kind = "response" /\ http.peer = "other"
  /\ http' = NoHttp
  /\ relay' = IdleRelay
  /\ UNCHANGED <<engineVars, client, dav, codec>>

\* Deno.serve, up to the request to the auth service: a request without a
\* bearer is answered at once.
RelayReceive ==
  /\ http.kind = "request"
  /\ IF http.bearer = "none"
       THEN /\ relay' = [IdleRelay EXCEPT !.peer = http.peer]
            /\ http' = Response(401, NoData)
       ELSE /\ relay' = [IdleRelay EXCEPT !.peer = http.peer, !.pc = "auth"]
            /\ http' = [http EXCEPT !.kind = "handling"]
  /\ UNCHANGED <<engineVars, client, dav, codec>>

\* The auth service's answer, then the checks of the body and the first
\* CalDAV request of the action.
RelayAuthResponse(ans) ==
  /\ relay.pc = "auth"
  /\ ans \in (IF http.bearer = "valid" THEN {"ok", "unreachable"}
                                       ELSE {"rejected", "unreachable"})
  /\ IF ans # "ok"
       THEN /\ relay' = [relay EXCEPT !.pc = "idle", !.auth = ans]
            /\ http' = Response(IF ans = "rejected" THEN 401 ELSE 500, NoData)
       ELSE IF Rejects(http.body)
         THEN /\ relay' = [relay EXCEPT !.pc = "idle", !.auth = ans]
              /\ http' = Response(400, NoData)
         ELSE LET first == FirstRequest(http.body)
              IN  /\ relay' = [relay EXCEPT !.pc = first.pc, !.auth = ans,
                                            !.method = first.method,
                                            !.ifMatch = first.ifMatch,
                                            !.davRequests = 1,
                                            !.inTry = TRUE,
                                            !.steps = <<first.pc>>]
                  /\ http' = http
  /\ UNCHANGED <<engineVars, client, dav, codec>>

\* putEvent: the PUT's answer.  A non-ok answer is thrown and becomes the
\* handler's 500; the new entity tag is returned without its quotes.
PutResponse(fault) ==
  LET uid    == Field(http.body, "eventUid")
      status == PutStatus(relay.ifMatch, dav.ver[uid], fault)
  IN  /\ relay.pc = "put"
      /\ relay' = [relay EXCEPT !.pc = "idle", !.davStatus = status]
      /\ IF Ok(status)
           THEN /\ dav' = [ver |-> [dav.ver EXCEPT ![uid] = dav.next], next |-> dav.next + 1]
                /\ http' = Response(200, [NoData EXCEPT !.success = TRUE,
                                                        !.etag = Etag(dav.next, 0)])
           ELSE /\ dav' = dav
                /\ http' = Response(500, NoData)
      /\ UNCHANGED <<engineVars, client, codec>>

\* deleteEvent: the DELETE's answer.
DeleteResponse(fault, strict) ==
  LET uid    == Field(http.body, "eventUid")
      status == DeleteStatus(relay.ifMatch, dav.ver[uid], fault, strict)
  IN  /\ relay.pc = "delete"
      /\ relay' = [relay EXCEPT !.pc = "idle", !.davStatus = status]
      /\ dav' = IF Ok(status) THEN [dav EXCEPT !.ver[uid] = 0] ELSE dav
      /\ http' = IF DeleteSucceeds(status)
                   THEN Response(200, [NoData EXCEPT !.success = TRUE])
                   ELSE Response(500, NoData)
      /\ UNCHANGED <<engineVars, client, codec>>

\* The relay's fetchSyncToken: whatever the PROPFIND brings, the answer is
\* 200 with the token or null.
RelaySyncToken(ans) ==
  /\ relay.pc = "token"
  /\ relay' = [relay EXCEPT !.pc = "idle", !.davStatus = IF ans = "error" THEN 500 ELSE 207]
  /\ http' = Response(200, [NoData EXCEPT !.syncToken = IF ans = "found" THEN dav.next
                                                                       ELSE NoToken])
  /\ UNCHANGED <<engineVars, client, dav, codec>>

\* fetchEvents and syncCollection: the REPORT's answer.
ReportResponse(ok) ==
  /\ relay.pc = "report"
  /\ relay' = [relay EXCEPT !.pc = "idle", !.davStatus = IF ok THEN 207 ELSE 500]
  /\ http' = Response(IF ok THEN 200 ELSE 500, NoData)
  /\ UNCHANGED <<engineVars, client, dav, codec>>

\* the next PROPFIND of the discovery
Step(r, pc) == [r EXCEPT !.pc = pc, !.davRequests = @ + 1, !.steps = Append(@, pc)]

\* A throw inside tryWellKnownPath or fetchCalendarsFromPath: while the call
\* made from fetchCalendars' try block is running, its catch block takes the
\* error and calls tryWellKnownPath; otherwise the error leaves fetchCalendars.
DiscoveryFails(r) ==
  IF r.inTry THEN Step([r EXCEPT !.inTry = FALSE], "wellKnown")
             ELSE [r EXCEPT !.pc = "idle"]

\* fetchCalendars, tryWellKnownPath, fetchCalendarsFromPath after the answer
\* to the PROPFIND in flight: what was asked for is found, is not in the
\* answer ("empty"), or the request fails ("error").
AfterDiscovery(r, ans) ==
  CASE r.pc = "home" ->
         IF ans = "found" THEN [r EXCEPT !.pc = "idle"]
         ELSE IF ans = "empty" THEN Step(r, "wellKnown")
         ELSE Step([r EXCEPT !.inTry = FALSE], "wellKnown")
    [] r.pc = "wellKnown" ->
         IF ans = "found" THEN Step(r, "principal") ELSE DiscoveryFails(r)
    [] r.pc = "principal" ->
         IF ans = "error" THEN DiscoveryFails(r) ELSE Step(r, "children")
    [] OTHER ->
         IF ans = "found" THEN [r EXCEPT !.pc = "idle"] ELSE DiscoveryFails(r)

DiscoveryResponse(ans) ==
  LET r == AfterDiscovery(relay, ans)
  IN  /\ relay.pc \in {"home", "wellKnown", "principal", "children"}
      /\ relay' = [r EXCEPT !.davStatus = IF ans = "error" THEN 500 ELSE 207]
      /\ http' = IF r.pc # "idle" THEN http
                 ELSE IF ans = "found" THEN Response(200, [NoData EXCEPT !.calendars = 1])
                 ELSE Response(500, NoData)
      /\ UNCHANGED <<engineVars, client, dav, codec>>

RelayInit ==
  /\ EngineAtRest
  /\ codec = IdleCodec
  /\ client = IdleClient
  /\ http = NoHttp
  /\ relay = IdleRelay
  /\ dav \in {DavOf(0), DavOf(1)}

RelayNext ==
  \/ \E c \in ClientCalls, h \in Bearers : Invoke(c, h)
  \/ NetworkFails
  \/ \E h \in Bearers : ClientResponse(h)
  \/ \E bearer \in Bearers, body \in OtherBodies : OtherRequest(bearer, body)
  \/ OtherReceives
  \/ RelayReceive
  \/ \E ans \in {"ok", "rejected", "unreachable"} : RelayAuthResponse(ans)
  \/ \E fault \in BOOLEAN : PutResponse(fault)
  \/ \E fault \in BOOLEAN, strict \in BOOLEAN : DeleteResponse(fault, strict)
  \/ \E ans \in {"found", "empty", "error"} : RelaySyncToken(ans)
  \/ \E ok \in BOOLEAN : ReportResponse(ok)
  \/ \E ans \in {"found", "empty", "error"} : DiscoveryResponse(ans)

RelaySpec == RelayInit /\ [][RelayNext]_vars

\* =====================================================================
\* Properties
\* =====================================================================

\* frames with a pass in flight
InFlight == {q \in Procs : call[q].pc # "idle"}

\* C1: a call of syncSelectedCalendars that arrives while a pass is in flight
\* returns 0 at once and changes no local event, sync token or counter; it does
\* not run later on its own: a frame starts running only in the step of its
\* call, and only when no pass is in flight.
C1_OverlappingCallDropped ==
  [][ /\ (InFlight # {} /\ (lastOp'.name = "call" \/ lastOp'.note = "dropped"))
         => /\ lastOp'.name = "return" /\ lastOp'.val = 0
            /\ UNCHANGED <<store, nextId, localStorage, syncInFlight, call, passes, hist>>
      /\ \A p \in Procs :
           (call[p].pc = "idle" /\ call'[p].pc # "idle")
             => lastOp'.name = "call" /\ lastOp'.p = p /\ InFlight = {} ]_vars

\* a second call has just been dropped while the first is reconciling
C1_Witness ==
  /\ lastOp = Returned(2, "dropped", 0)
  /\ call[1].pc = "reconcile"
  /\ call[2].pc = "idle"

\* caldav rows of the calendar frame p is working on
C2_Local(p) ==
  {r \in store : r.source = "caldav" /\ r.calendar_url.cal = call[p].calendarUrl.cal}

\* those of them the fetched list of frame p does not contain
C2_Unmatched(p) ==
  LET ev == call[p].eventsToProcess
  IN  {r \in C2_Local(p) :
         IF r.caldav_uid # NoUid
           THEN \A i \in 1..Len(ev) : ev[i].uid # r.caldav_uid
           ELSE \A i \in 1..Len(ev) :
                  <<ev[i].title, ev[i].date, ev[i].startTime, ev[i].endTime>>
                    # <<r.title, r.date, r.start_time, r.end_time>>}

\* frame p's deleteRemovedEvents call is answered in this step
DeleteAnswered(p) == call[p].pc = "delete" /\ call'[p].pc # "delete"

\* C2: when a calendar has at least 10 local CalDAV events and a non-empty full
\* fetch leaves more than 90% of them unmatched, the deletion step removes
\* nothing and reports 0.
C2_RunawayDeletionAborted ==
  [][ \A p \in Procs :
        ( /\ DeleteAnswered(p)
          /\ Len(call[p].eventsToProcess) > 0
          /\ Cardinality(C2_Local(p)) >= 10
          /\ 10 * Cardinality(C2_Unmatched(p)) > 9 * Cardinality(C2_Local(p)) )
        => /\ store' = store
           /\ call'[p].deletedCount = call[p].deletedCount
           /\ hist'.deleted = hist.deleted ]_vars

\* 20 local events, a fetch that returned one event matching none: all 21 rows
\* are still there after the deletion step
C2_Witness ==
  /\ lastOp = Op("delete", 1, "runaway-abort")
  /\ Len(call[1].eventsToProcess) = 1
  /\ Cardinality(store) = 21
  /\ call[1].deletedCount = 0

UniquePerUid(st) ==
  \A r1, r2 \in st :
    (/\ r1.caldav_uid # NoUid
     /\ r1.caldav_uid = r2.caldav_uid
     /\ normalizeCalendarUrl(r1.calendar_url) = normalizeCalendarUrl(r2.calendar_url))
    => r1 = r2

\* C4: after any sequence of sync passes the store holds at most one event for
\* each (caldavUid, normalized calendarUrl) pair.
C4_OneEventPerUid == UniquePerUid(store)

\* a pass has just returned
PassReturned == lastOp.name = "return" /\ lastOp.note = "finished"

\* C5: a pass that follows a pass over the same selection, with no remote
\* change and no failed request in or between the two, creates nothing,
\* updates nothing, deletes nothing and returns 0.
C5_SecondPassIsNoOp ==
  (PassReturned /\ hist.repeat /\ hist.clean)
    => /\ hist.created = 0 /\ hist.updated = 0 /\ hist.deleted = 0
       /\ lastOp.val = 0

\* the fetched event frame p reconciles next
CurrentEvent(p) == call[p].eventsToProcess[call[p].pos]

\* events of frame p's pass counted as skipped / as synced so far
SkippedSoFar(c) == c.skippedCount + c.calendarSkippedCount
SyncedSoFar(c) == c.syncedCount + c.calendarSyncedCount

\* the store holds a row for (e.uid, calendarUrl) with e's six fields
HasUnchangedRow(p) ==
  LET e == CurrentEvent(p)
  IN  /\ e.uid # NoUid
      /\ \E r \in store :
           /\ r.caldav_uid = e.uid /\ r.calendar_url = call[p].calendarUrl
           /\ r.title = e.title /\ r.date = e.date /\ r.memo = e.memo
           /\ r.start_time = e.startTime /\ r.end_time = e.endTime
           /\ r.color = e.color

C7_DeletionOnlyAfterFullFetch ==
  [][ /\ \A p \in Procs :
           call'[p].pc = "delete" => call'[p].usedFullFetch /\ ~call'[p].syncResult
      /\ \A r \in store :
           r.id \notin Ids(store')
             => \E p \in Procs : /\ call[p].pc = "delete"
                                 /\ call[p].usedFullFetch /\ ~call[p].syncResult
                                 /\ r.calendar_url.cal = call[p].calendarUrl.cal ]_vars

\* an incremental result has been reconciled, the calendar holds a row the
\* result does not mention, and the pass is about to end without having
\* deleted anything
C7_Witness ==
  \E p \in Procs :
    /\ call[p].pc = "write"
    /\ call[p].syncResult /\ ~call[p].usedFullFetch
    /\ Len(call[p].eventsToProcess) > 0
    /\ hist.deleted = 0
    /\ \E r \in existingEvents(store, call[p].calendarUrl) :
         shouldDelete(r, call[p].currentEventUids, call[p].eventsToProcess)

\* the server still has the event local row r stands for
StillOnServer(r) ==
  IF r.calendar_url.cal = 2
    THEN \E i \in 1..Len(Cal2Events) : Cal2Events[i].uid = r.caldav_uid
    ELSE \E s \in Slots : remote[s].present /\ remote[s].uid = r.caldav_uid

\* C8: a sync pass destroys a local event only when the corresponding remote
\* event has been removed from the server; an event that still exists remotely
\* is never deleted locally by sync.
C8_DeletedOnlyWhenRemovedRemotely ==
  [][ \A r \in store :
        (r.id \notin Ids(store') /\ r.caldav_uid # NoUid) => ~StillOnServer(r) ]_vars

\* C9: a completed pass returns -1 if and only if it deleted at least one
\* local event; otherwise it returns the number of events it created plus the
\* number of updates that succeeded.
C9_ReturnContract ==
  PassReturned
    => /\ (lastOp.val = -1) <=> (hist.deleted > 0)
       /\ hist.deleted = 0 => lastOp.val = hist.created + hist.updated

\* a pass that both created and deleted events has returned -1
C9_Witness ==
  /\ PassReturned
  /\ lastOp.val = -1
  /\ hist.deleted > 0
  /\ hist.created > 0

\* frame p's fetchCalendarEvents call throws in this step
FetchThrows(p) ==
  /\ call[p].pc = "fetchEvents"
  /\ lastOp' = Op("fetchEvents", p, "calendar-failed")
  /\ faults' > faults

\* C10: when the full fetch of a selected calendar throws, the failure is
\* caught: the step changes no local event, no token and no count, and the
\* pass goes on with the next selected calendar (or, after the last one, with
\* writing the tokens), so the other calendars are processed from the state
\* they would have been processed from without the failing calendar.
C10_CalendarFailureIsolated ==
  [][ \A p \in Procs :
        FetchThrows(p)
        => /\ store' = store /\ nextId' = nextId /\ localStorage' = localStorage
           /\ call'[p].syncTokens = call[p].syncTokens
           /\ call'[p].syncedCount = call[p].syncedCount
           /\ call'[p].skippedCount = call[p].skippedCount
           /\ call'[p].deletedCount = call[p].deletedCount
           /\ call'[p].sel = call[p].sel
           /\ call'[p].idx = call[p].idx + 1
           /\ IF call[p].idx < Len(call[p].sel)
                THEN /\ call'[p].pc \in {"syncCollection", "fetchEvents"}
                     /\ call'[p].calendarUrl = normalizeCalendarUrl(call[p].sel[call[p].idx + 1])
                ELSE call'[p].pc = "write" ]_vars

\* the fetch of the first selected calendar has just failed and the pass has
\* issued the fetch of the second one
C10_Witness ==
  \E p \in Procs :
    /\ lastOp = Op("fetchEvents", p, "calendar-failed")
    /\ Len(call[p].sel) = 2
    /\ call[p].idx = 2
    /\ call[p].pc = "fetchEvents"
    /\ call[p].calendarUrl = normalizeCalendarUrl(call[p].sel[2])

\* C18: for every event with a caldavUid, decoding the text that encoding
\* it produced yields an event with the same date, the same presence or
\* absence of startTime and of endTime, and the same UID - events with a
\* startTime and no endTime included.
C18_IcsRoundTrip ==
  (codec.pc = "decoded" /\ codec.event.caldavUid # None) =>
    /\ codec.parsed.ok
    /\ codec.parsed.date = codec.event.date
    /\ (codec.parsed.startTime = NoTime) <=> (codec.event.startTime = NoTime)
    /\ (codec.parsed.endTime = NoTime) <=> (codec.event.endTime = NoTime)
    /\ codec.parsed.uid = codec.event.caldavUid

\* C19: for an event with a date and neither start nor end time the encoder
\* writes DTSTART as a date-only value equal to the event's date and DTEND as
\* a date-only value equal to the following calendar day, across month and
\* year ends too, and neither carries a time.
C19_AllDayEncode ==
  (codec.pc # "idle" /\ codec.event.startTime = NoTime /\ codec.event.endTime = NoTime) =>
    LET dtstart == Match(codec.text, "DTSTART")
        dtend   == Match(codec.text, "DTEND")
    IN  /\ dtstart.param = "VALUE=DATE" /\ dtstart.value.chars = 8
        /\ dtstart.value.day = codec.event.date
        /\ dtend.param = "VALUE=DATE" /\ dtend.value.chars = 8
        /\ dtend.value.day = NextDay(codec.event.date)

\* The answer to a doFetch is with the client, which takes it in this step.
ClientAnswered ==
  client.pc = "fetch" /\ http.kind = "response" /\ http.peer = "client" /\ client' # client

\* the call ends in this step, with no further request
CallEnds == client'.pc = "done" /\ client'.requests = client.requests /\ http'.kind = "none"

\* the retry goes out in this step
Retried ==
  /\ client'.pc = "fetch" /\ client'.requests = 2
  /\ http'.kind = "request" /\ http'.body = client.body

\* the failure reaches the function that called invokeCalDavProxy
\* (fetchSyncToken turns it into null, the others throw it on)
Surfaced ==
  /\ CallEnds
  /\ client'.out = IF client.op = "fetchSyncToken" THEN "returned" ELSE "thrown"
  /\ client.op # "fetchSyncToken" => client'.status = http.status

\* C11 as stated: a 401 answer to the first request is followed by a session
\* refresh and exactly one retry; any other failure, and a failure of the
\* retry, ends the call with that failure and without another request.
C11_ExactlyOneRetry ==
  [][ClientAnswered =>
        IF client.requests = 1 /\ http.status = 401
          THEN client'.refreshes = 1 /\ Retried
          ELSE ~Ok(http.status) => (Surfaced /\ client'.refreshes = client.refreshes)]_vars

\* C11: a 401 answer to the first request is followed by one session refresh
\* and then by one retry if getFunctionHeaders still yields headers, and by
\* the 401 being surfaced if it does not; any other failure, and a failure of
\* the retry, is surfaced without another request; a call issues at most
\* two requests.
C11_RetryOnceAfter401 ==
  [][/\ client'.requests <= 2
     /\ ClientAnswered =>
          IF client.requests = 1 /\ http.status = 401
            THEN client'.refreshes = 1 /\ (Retried \/ Surfaced)
            ELSE ~Ok(http.status) => (Surfaced /\ client'.refreshes = client.refreshes)]_vars

\* a retry was sent after a 401 and failed in its turn
C11_Witness ==
  /\ client.pc = "done" /\ client.requests = 2 /\ client.refreshes = 1
  /\ client.out = "thrown" /\ client.status = 401

\* the relay is handling, or has answered, the client's request in flight
ServingClient == http.kind \in {"handling", "response"} /\ http.peer = "client"

\* C12: updateCalDavEvent called with an etag puts that etag in the request
\* body; putEvent sends it, in quotes, as the If-Match header of the PUT; and
\* when the PUT's answer is not a success the call ends with an error.
C12_ConditionalWrite ==
  client.op = "updateCalDavEvent" =>
    /\ (http.kind \in {"request", "handling"} /\ http.peer = "client")
          => Field(http.body, "etag") = client.etag
    /\ (ServingClient /\ relay.method = "PUT" /\ client.etag # NoEtag)
          => relay.ifMatch = Etag(client.etag.tag, client.etag.quotes + 1)
    /\ (client.pc = "done" /\ relay.peer = "client" /\ relay.method = "PUT"
          /\ ~Ok(relay.davStatus))
          => client.out = "thrown"

\* an update with an etag that the server refused (412) and the caller saw fail
C12_Witness ==
  /\ client.pc = "done" /\ client.op = "updateCalDavEvent" /\ client.etag # NoEtag
  /\ relay.peer = "client" /\ relay.method = "PUT" /\ relay.ifMatch # NoEtag
  /\ relay.davStatus = 412
  /\ client.out = "thrown" /\ client.status = 500

\* C13: the request body built by createCalDavEvent has action 'createEvent',
\* carries the settingId of the config, and its eventData holds a SUMMARY
\* line with the event's title.
C13_CreateRequestBody ==
  (client.op = "createCalDavEvent" /\ http.kind = "request" /\ http.peer = "client") =>
    /\ http.body.action = "createEvent"
    /\ "settingId" \in DOMAIN http.body
    /\ http.body["settingId"] = TestConfig.settingId
    /\ \E i \in 1..Len(http.body.eventData) :
         /\ http.body.eventData[i].name = "SUMMARY"
         /\ http.body.eventData[i].value = TestEvent.title

\* how many PROPFINDs of one kind the handler has sent
Attempts(name) == Cardinality({i \in 1..Len(relay.steps) : relay.steps[i] = name})

\* C14: listCalendars asks the guessed calendar home first; the principal
\* lookup, the calendar-home lookup and the child listing of the fallback
\* are each attempted at most once per call; and the call answers with a
\* non-empty calendar list or with an error.
C14_DiscoveryStepsOnce ==
  (relay.steps # <<>> /\ relay.steps[1] = "home") =>
    /\ Attempts("home") = 1
    /\ Attempts("wellKnown") <= 1
    /\ Attempts("principal") <= 1
    /\ Attempts("children") <= 1
    /\ (relay.pc = "idle" /\ http.kind = "response" /\ http.status # 0) =>
          \/ http.status = 200 /\ http.data.calendars > 0
          \/ http.status = 500

\* the relay is handling, or has answered, the request in flight
Serving == http.kind \in {"handling", "response"}

\* the answer of the handler itself (status 0: the answer was lost on the way)
Answered == http.kind = "response" /\ http.status # 0

\* a field that the request's action requires is absent
LacksRequired == \E k \in RequiredOf(Field(http.body, "action")) : ~Given(http.body, k)

\* C15: the relay sends no CalDAV request unless the auth service has
\* accepted the request's bearer; a request without bearer, or whose bearer
\* the auth service rejects, is answered 401, and an authenticated request
\* that lacks a field its action requires is answered 400 - each without a
\* request to the CalDAV server.
C15_AuthBeforeCalDav ==
  Serving =>
    /\ relay.davRequests > 0 => (relay.auth = "ok" /\ http.bearer = "valid")
    /\ (Answered /\ (http.bearer = "none" \/ relay.auth = "rejected"))
          => (http.status = 401 /\ relay.davRequests = 0)
    /\ (Answered /\ relay.auth = "ok" /\ LacksRequired)
          => (http.status = 400 /\ relay.davRequests = 0)
    /\ (relay.auth = "ok" /\ LacksRequired) => relay.davRequests = 0

\* an authenticated createEvent without eventData, answered 400
C15_Witness ==
  /\ Answered /\ relay.auth = "ok" /\ http.status = 400 /\ relay.davRequests = 0
  /\ Field(http.body, "action") = "createEvent" /\ ~Given(http.body, "eventData")

\* the client's call is a deleteCalDavEvent that follows a successful
\* deleteCalDavEvent of the same uid
SecondDelete ==
  /\ client.op = "deleteCalDavEvent"
  /\ client.prev = [op |-> "deleteCalDavEvent", uid |-> client.uid, out |-> "returned"]

\* C16: deleteEvent answers with success exactly when the server deleted the
\* resource or answered 'not found', and with an error for any other status;
\* so the second of two deletes of one uid in a row, answered 'not found',
\* succeeds like the first.
C16_IdempotentDelete ==
  /\ (Answered /\ relay.method = "DELETE") =>
        IF Ok(relay.davStatus) \/ relay.davStatus = 404
          THEN http.status = 200 /\ http.data.success
          ELSE http.status = 500
  /\ (SecondDelete /\ client.pc = "done" /\ relay.peer = "client"
        /\ relay.method = "DELETE" /\ relay.davStatus = 404)
        => (client.out = "returned" \/ client.status = 0)

\* the second delete in a row, answered 404 by the server, has returned
C16_Witness ==
  /\ SecondDelete /\ client.pc = "done" /\ client.out = "returned"
  /\ relay.peer = "client" /\ relay.method = "DELETE" /\ relay.davStatus = 404
  /\ dav.ver[client.uid] = 0

\* the relay's last handling was a getSyncToken that reached the server
TokenAsked == relay.steps = <<"token">>

\* C17: getSyncToken never fails.  The relay answers 200 whatever the token
\* PROPFIND brought, with null unless the server exposed a token; and the
\* client's fetchSyncToken returns - null when there is no token or when
\* the request failed anywhere on the way - and never throws.
C17_SyncTokenNeverFails ==
  /\ (Answered /\ TokenAsked /\ relay.pc = "idle") => http.status = 200
  /\ (client.op = "fetchSyncToken" /\ client.pc = "done") =>
        /\ client.out = "returned"
        /\ client.value.syncToken # NoToken =>
              (relay.peer = "client" /\ TokenAsked /\ relay.davStatus = 207)

\* the token request failed at the server and fetchSyncToken returned null
C17_Witness ==
  /\ client.op = "fetchSyncToken" /\ client.pc = "done" /\ client.requests = 1
  /\ relay.peer = "client" /\ TokenAsked /\ relay.davStatus = 500
  /\ client.out = "returned" /\ client.value.syncToken = NoToken

\* caller p's pass begins the iteration of its next selected calendar
CalendarBegins(p) == call'[p].idx = call[p].idx + 1 /\ call'[p].idx <= Len(call'[p].sel)

HasToken(c) == c.syncTokens[c.calendarUrl] # NoToken

\* the token persisted for calendar c under the engine's credentials
StoredToken(c) == readSyncTokens(localStorage, TestConfig)[Url(c, FALSE)]

\* C20: for each calendar the pass calls syncCollection if and only if its
\* token map holds a token for the normalized URL; it goes on to the full
\* fetchEvents exactly when there is no token, or the syncCollection call
\* failed, or its result has hasDeletions set; otherwise it processes the
\* incremental result alone.
C20_StrategySelection ==
  [][\A p \in Procs :
       /\ CalendarBegins(p) =>
            /\ call'[p].calendarUrl = normalizeCalendarUrl(call'[p].sel[call'[p].idx])
            /\ call'[p].pc = IF HasToken(call'[p]) THEN "syncCollection" ELSE "fetchEvents"
       /\ (call[p].pc = "syncCollection" /\ call'[p] # call[p]) =>
            /\ lastOp'.name = "syncCollection"
            /\ IF lastOp'.note \in {"failed", "hasDeletions"}
                 THEN /\ call'[p].pc = "fetchEvents" /\ call'[p].idx = call[p].idx
                      /\ call'[p].usedFullFetch
                 ELSE /\ ~call'[p].usedFullFetch \/ CalendarBegins(p)
                      /\ call'[p].idx = call[p].idx => call'[p].pc = "reconcile"
       /\ (call'[p].pc = "fetchEvents" /\ call'[p] # call[p]) =>
            \/ CalendarBegins(p) /\ ~HasToken(call'[p])
            \/ /\ call[p].pc = "syncCollection"
               /\ lastOp'.note \in {"failed", "hasDeletions"}]_vars

\* a calendar with a stored token whose syncCollection result reported
\* deletions is about to be fetched in full
C20_Witness ==
  \E p \in Procs :
    /\ call[p].pc = "fetchEvents" /\ HasToken(call[p]) /\ call[p].usedFullFetch
    /\ lastOp = Op("syncCollection", p, "hasDeletions")

\* frame p's pass leaves the calendar it is working on in this step
CalendarEnds(p) == call'[p].idx = call[p].idx + 1

\* the token carried by the incremental result frame p is using
IncrementalToken(p) ==
  IF call[p].pc = "syncCollection"
    THEN ServerSyncCollection(call[p].calendarUrl.cal, remote, srvVer, delVer,
                              call[p].syncTokens[call[p].calendarUrl]).syncToken
    ELSE call[p].syncResultToken

\* C21: per calendar, the token map of the pass changes only as follows: when
\* the pass used an incremental result, the token that result carried is
\* stored once the calendar is done; when it used the full fetch, a token is
\* requested after the deletion step and stored when non-null, the previous
\* one being kept when null; a result discarded for hasDeletions leaves
\* nothing behind, its token is not stored; the map is written out when the
\* pass returns.
C21_TokenPersistence ==
  [][\A p \in Procs :
       LET c   == call[p]
           d   == call'[p]
           cal == c.calendarUrl.cal
       IN  /\ (c.pc \notin {"idle", "write"} /\ d # c) =>
                /\ \A k \in Urls \ {c.calendarUrl} : d.syncTokens[k] = c.syncTokens[k]
                /\ d.syncTokens[c.calendarUrl] =
                     IF CalendarEnds(p) /\ ~c.usedFullFetch
                       THEN IncrementalToken(p)
                     ELSE IF c.pc = "getSyncToken" /\ lastOp'.note = "token"
                       THEN ServerToken(cal, srvVer)
                     ELSE c.syncTokens[c.calendarUrl]
                /\ c.pc = "delete" => d.pc = "getSyncToken"
                /\ d.pc = "getSyncToken" => d.usedFullFetch /\ ~d.syncResult
                /\ lastOp'.note = "hasDeletions" =>
                     ~d.syncResult /\ d.syncResultToken = NoToken
           /\ (c.pc = "write" /\ d.pc = "idle" /\ lastOp'.name = "return") =>
                readSyncTokens(localStorage', TestConfig) = c.syncTokens]_vars

\* a pass that held a token found deletions in the incremental result, fell
\* back to the full fetch and has stored the token requested afterwards
C21_Witness ==
  \E p \in Procs :
    /\ call[p].pc = "write" /\ call[p].usedFullFetch
    /\ lastOp = Op("getSyncToken", p, "token")
    /\ StoredToken(1) # NoToken /\ delVer > StoredToken(1) /\ faults = 0
    /\ call[p].calendarUrl.cal = 1
    /\ call[p].syncTokens[Url(1, FALSE)] = srvVer /\ srvVer > StoredToken(1)

\* the loop over the fetched events of frame c's calendar has run to its end
LoopDone(c) ==
  /\ Len(c.eventsToProcess) > 0 => c.pos = Len(c.eventsToProcess) + 1
  /\ \A i \in 1..Len(c.eventsToProcess) :
       c.eventsToProcess[i].uid # NoUid => c.eventsToProcess[i].uid \in c.currentEventUids

\* C22: within one calendar's iteration the deletion step is entered only
\* when the loop over the fetched events has handled every one of them; rows
\* leave the store only in that step; and between the deletion step and the
\* end of the iteration nothing is created or updated.
C22_DeletionAfterReconcile ==
  [][\A p \in Procs :
       LET c == call[p]
           d == call'[p]
       IN  /\ d.pc = "delete" => LoopDone(d)
           /\ (Ids(store) \ Ids(store') # {} /\ d # c) => c.pc = "delete" /\ LoopDone(c)
           /\ (c.pc \in {"delete", "getSyncToken"} /\ d # c) =>
                /\ store' \subseteq store /\ nextId' = nextId
                /\ hist'.created = hist.created /\ hist'.updated = hist.updated
                /\ d.idx = c.idx => c.pc = "delete" /\ d.pc = "getSyncToken"]_vars

\* a pass that created an event in the loop has then deleted one
C22_Witness ==
  \E p \in Procs :
    /\ lastOp = Op("delete", p, "deleted")
    /\ call[p].pc = "getSyncToken"
    /\ Len(call[p].eventsToProcess) > 0 /\ LoopDone(call[p])
    /\ hist.created >= 1 /\ hist.deleted >= 1

\* row r carries the six reconciled fields of fetched event e
SameSixFields(r, e) ==
  /\ r.title = e.title /\ r.date = e.date /\ r.memo = e.memo
  /\ r.start_time = e.startTime /\ r.end_time = e.endTime
  /\ r.color = e.color

\* C23: when a pass reconciles a fetched event with the local event of the
\* same (uid, calendarUrl) and the store update succeeds, the local event's
\* title, date, memo, startTime, endTime and color equal the fetched
\* event's.
C23_RemoteWins ==
  [][\A p \in Procs :
       (call[p].pc = "reconcile" /\ lastOp' = Op("reconcile", p, "updated"))
       => \A r \in RowsByUID(store', CurrentEvent(p).uid, call[p].calendarUrl) :
            SameSixFields(r, CurrentEvent(p))]_vars

\* fetched event e has the (title, date, startTime, endTime) of row r
SameDetails(r, e) ==
  /\ e.title = r.title /\ e.date = r.date
  /\ e.startTime = r.start_time /\ e.endTime = r.end_time

\* the loaded rows that are candidates: a UID the pass has not seen, or no
\* UID and details no fetched event has
C24_Candidates(p) ==
  LET ev == call[p].eventsToProcess
  IN  {r \in C2_Local(p) :
         IF r.caldav_uid # NoUid
           THEN r.caldav_uid \notin call[p].currentEventUids
           ELSE \A i \in 1..Len(ev) : ~SameDetails(r, ev[i])}

\* rows removed from the store in this step
Removed == {r \in store : r.id \notin Ids(store')}

\* C24: the deletion step removes candidates only - rows of the calendar with
\* source caldav whose UID is not in the seen set, or which have no UID and
\* whose (title, date, startTime, endTime) no fetched event has; when the
\* fetch was not empty, the candidates are not more than 90% of ten or more
\* rows and no store call fails, it removes exactly the candidates and adds
\* their number to the deleted count.
C24_DeletionCandidates ==
  [][\A p \in Procs :
       DeleteAnswered(p) =>
         /\ Removed \subseteq C24_Candidates(p)
         /\ store' \subseteq store
         /\ ( /\ faults' = faults
              /\ Len(call[p].eventsToProcess) > 0 \/ call[p].currentEventUids # {}
              /\ ~( /\ Cardinality(C2_Local(p)) >= 10
                    /\ 10 * Cardinality(C24_Candidates(p)) > 9 * Cardinality(C2_Local(p)) ) )
            => /\ Removed = C24_Candidates(p)
               /\ call'[p].deletedCount =
                    call[p].deletedCount + Cardinality(C24_Candidates(p))]_vars

\* the deletion step has removed a row whose UID was not seen and has kept a
\* row without UID whose details a fetched event has
C24_Witness ==
  \E p \in Procs :
    /\ lastOp = Op("delete", p, "deleted")
    /\ hist.deleted = 1 /\ call[p].deletedCount = 1
    /\ \E r \in C2_Local(p) :
         /\ r.caldav_uid = NoUid
         /\ \E i \in 1..Len(call[p].eventsToProcess) : SameDetails(r, call[p].eventsToProcess[i])
    /\ C24_Candidates(p) = {}

\* C25: a row leaves the store only in the deletion step of a pass, and
\* only if its source is caldav and its calendarUrl, normalized, is the
\* calendar that step is running for; manual events and the events of other
\* calendars are never deleted by a pass.
C25_DeletionFrame ==
  [][\A r \in Removed :
       /\ r.source = "caldav"
       /\ \E p \in Procs :
            /\ DeleteAnswered(p)
            /\ normalizeCalendarUrl(r.calendar_url) = call[p].calendarUrl]_vars

\* the deletion step of calendar 1 has removed a row while a manual event of
\* calendar 1 and a synced event of calendar 2 are in the store
C25_Witness ==
  \E p \in Procs :
    /\ lastOp = Op("delete", p, "deleted")
    /\ call[p].calendarUrl = Url(1, FALSE)
    /\ \E r \in store : r.source = "manual" /\ r.calendar_url.cal = 1
    /\ \E r \in store : r.source = "caldav" /\ r.calendar_url.cal = 2

\* frame p is about to reconcile an event with a UID for which the calendar
\* has no row yet, while a row without UID, of source caldav, has the
\* event's details and the calendar's URL
LegacyMatch(p) ==
  LET e == CurrentEvent(p)
  IN  /\ call[p].pc = "reconcile"
      /\ e.uid # NoUid
      /\ \A r \in store : ~( /\ r.caldav_uid = e.uid
                               /\ normalizeCalendarUrl(r.calendar_url) = call[p].calendarUrl )
      /\ \E r \in store : /\ r.caldav_uid = NoUid /\ r.source = "caldav"
                           /\ SameDetails(r, e)
                           /\ r.calendar_url = call[p].calendarUrl

\* C26: when a fetched event has a UID, the calendar has no local event for
\* that UID, and a local event without UID and with source caldav matches it
\* on (title, date, startTime, endTime, calendarUrl), the reconciliation (the
\* store answering every call) attaches the UID to an existing event and
\* creates none: the store has as many events as before.
C26_LegacyAttach ==
  [][\A p \in Procs :
       (LegacyMatch(p) /\ call'[p] # call[p] /\ faults' = faults)
       => /\ Ids(store') = Ids(store) /\ nextId' = nextId
          /\ \E r \in store' : r.caldav_uid = CurrentEvent(p).uid /\ r.id \in Ids(store)
       ]_vars

\* rows r1 and r2 are synced events without UID that agree on
\* (title, date, startTime, endTime, calendarUrl)
UidlessTwins(r1, r2) ==
  /\ r1.source = "caldav" /\ r2.source = "caldav"
  /\ r1.caldav_uid = NoUid /\ r2.caldav_uid = NoUid
  /\ r1.title = r2.title /\ r1.date = r2.date
  /\ r1.start_time = r2.start_time /\ r1.end_time = r2.end_time
  /\ r1.calendar_url = r2.calendar_url

\* C27: a fetched event without UID is created only if no local event has
\* its (title, date, startTime, endTime, calendarUrl), so after any sequence
\* of passes no two local events with source caldav and without caldavUid
\* share that tuple.
C27_UidlessUnique ==
  \A r1, r2 \in store : UidlessTwins(r1, r2) => r1 = r2

\* the rows that stand for fetched event e in frame p's calendar, whichever
\* way their calendarUrl is spelled
RowsOfEvent(p, e) ==
  {r \in store : /\ r.caldav_uid = e.uid
                  /\ normalizeCalendarUrl(r.calendar_url) = call[p].calendarUrl}

\* C28: the lookups of a pass find a local event whether its calendarUrl is
\* stored in the normalized form or with a trailing slash: when the store
\* holds an event for the UID of a fetched event under either form, the
\* reconciliation (the store answering every call) finds it and creates no
\* second event, and the deletion step loads it.
C28_TrailingSlashTolerance ==
  [][\A p \in Procs :
       /\ ( /\ call[p].pc = "reconcile"
            /\ CurrentEvent(p).uid # NoUid
            /\ RowsOfEvent(p, CurrentEvent(p)) # {}
            /\ call'[p] # call[p] /\ faults' = faults )
          => /\ Ids(store') = Ids(store)
             /\ lastOp'.note \in {"unchanged", "updated"}
       /\ DeleteAnswered(p) =>
            \A r \in store :
              (r.source = "caldav" /\ normalizeCalendarUrl(r.calendar_url) = call[p].calendarUrl)
                => r \in existingEvents(store, call[p].calendarUrl)]_vars

\* the batch a candidate falls in: candidates in the order of the load
\* (ascending id), cut into runs of batchSize
BatchOf(p, r) ==
  (Cardinality({x \in C24_Candidates(p) : x.id <= r.id}) - 1) \div batchSize + 1

\* the batches of frame p's deletion step
BatchesOf(p) == {BatchOf(p, r) : r \in C24_Candidates(p)}

\* C29: when the deletion step goes ahead, the candidates are deleted in
\* consecutive batches of at most 50 ids; exactly the rows of the batches
\* whose delete did not fail are removed - a failed batch does not stop the
\* later ones - and the count returned is the number of rows in the batches
\* that succeeded.
C29_BatchedDeletion ==
  [][\A p \in Procs :
       ( /\ DeleteAnswered(p)
         /\ lastOp'.note \notin {"empty-fetch", "load-failed"}
         /\ ~( /\ Cardinality(C2_Local(p)) >= 10
               /\ 10 * Cardinality(C24_Candidates(p)) > 9 * Cardinality(C2_Local(p)) ) )
       => /\ hist'.failedBatches \subseteq BatchesOf(p)
          /\ \A b \in BatchesOf(p) :
               Cardinality({r \in C24_Candidates(p) : BatchOf(p, r) = b}) <= batchSize
          /\ Removed = {r \in C24_Candidates(p) : BatchOf(p, r) \notin hist'.failedBatches}
          /\ call'[p].deletedCount = call[p].deletedCount + Cardinality(Removed)]_vars

\* 101 candidates in three batches: the second failed, the first and the
\* third were deleted, 51 rows are counted
C29_Witness ==
  /\ lastOp = Op("delete", 1, "deleted")
  /\ hist.failedBatches = {2}
  /\ call[1].deletedCount = batchSize + 1
  /\ Cardinality(store) = MaxRows - (batchSize + 1)
  /\ MaxRows \notin Ids(store)
  /\ MaxRows - 1 \in Ids(store)

C31_StoreFailureContinues ==
  [][\A p \in Procs :
       LET c == call[p]
           d == call'[p]
       IN  /\ (c.pc = "reconcile" /\ faults' = faults + 1) =>
                 IF c.pos < Len(c.eventsToProcess)
                   THEN /\ d.pc = "reconcile" /\ d.idx = c.idx
                        /\ d.eventsToProcess = c.eventsToProcess /\ d.pos = c.pos + 1
                 ELSE IF c.usedFullFetch
                   THEN /\ d.pc = "delete" /\ d.idx = c.idx
                        /\ d.eventsToProcess = c.eventsToProcess
                 ELSE /\ d.idx = c.idx + 1
                      /\ c.syncResultToken # NoToken =>
                            d.syncTokens[c.calendarUrl] = c.syncResultToken
           /\ (c.pc = "delete" /\ d # c) => d.pc = "getSyncToken" /\ d.idx = c.idx
    ]_vars

\* The first of two fetched events could not be created, the second was, and
\* the deletion step is about to run.
C31_Witness ==
  \E p \in Procs :
    LET c == call[p]
    IN  /\ passes = 1 /\ faults = 1 /\ Len(c.sel) = 1
        /\ c.pc = "delete" /\ Len(c.eventsToProcess) = 2
        /\ lastOp.name = "reconcile" /\ lastOp.note = "created"
        /\ \A r \in store : r.caldav_uid # c.eventsToProcess[1].uid
        /\ \E r \in store : r.caldav_uid = c.eventsToProcess[2].uid

\* the server's answer to the sync-collection request frame p is waiting for
MultistatusFor(p, gone, inline) ==
  ServerMultistatus(call[p].calendarUrl.cal, remote, srvVer, delVer,
                    call[p].syncTokens[call[p].calendarUrl], gone, inline)

\* that answer has an entry with status 404 or 410
GoneEntry(p) == \E gone \in GoneStatuses :
                  \E x \in MultistatusFor(p, gone, TRUE).entries : x.status \in {404, 410}

\* C32: when the answer to sync-collection has an entry with status 404 or
\* 410, the relay's result has hasDeletions set and its events are events of
\* resources on the server only (no record stands for the removal); the
\* engine then drops that result - nothing of it is reconciled - and requests
\* the full fetch, whose events are the ones it reconciles.
C32_DeletionSignalling ==
  [][\A p \in Procs :
       LET c == call[p]
           d == call'[p]
       IN  /\ (c.pc = "syncCollection" /\ GoneEntry(p)) =>
                \A gone \in GoneStatuses, inline \in BOOLEAN, lost \in SUBSET Slots :
                  LET R == fetchSyncCollection(MultistatusFor(p, gone, inline), remote, lost)
                  IN  /\ R.hasDeletions
                      /\ \A i \in 1..Len(R.events) :
                           \E s \in Slots : /\ remote[s].present
                                            /\ R.events[i] = RemoteEvent(remote[s].uid,
                                                                         remote[s].shape)
           /\ ( /\ c.pc = "syncCollection" /\ GoneEntry(p)
                /\ lastOp' = Op("syncCollection", p, lastOp'.note)
                /\ lastOp'.note # "failed" ) =>
                /\ lastOp'.note = "hasDeletions"
                /\ d.pc = "fetchEvents" /\ d.idx = c.idx /\ d.usedFullFetch
                /\ ~d.syncResult /\ d.eventsToProcess = <<>>
                /\ store' = store
           /\ (c.pc = "fetchEvents" /\ lastOp' = Op("fetchEvents", p, "fetched")
               /\ d.idx = c.idx) =>
                d.eventsToProcess = ServerFullFetch(c.calendarUrl.cal, remote)
    ]_vars

\* A calendar with a stored token whose incremental answer carried a removal:
\* the events about to be reconciled are those of the full fetch, not those
\* of the incremental result.
C32_Witness ==
  \E p \in Procs :
    LET c == call[p]
    IN  /\ c.pc = "reconcile" /\ c.pos = 1 /\ c.usedFullFetch /\ HasToken(c)
        /\ lastOp = Op("fetchEvents", p, "fetched")
        /\ delVer > c.syncTokens[c.calendarUrl]
        /\ c.eventsToProcess = ServerFullFetch(c.calendarUrl.cal, remote)
        /\ c.eventsToProcess #
             ServerSyncCollection(c.calendarUrl.cal, remote, srvVer, delVer,
                                  c.syncTokens[c.calendarUrl]).events

\* C33: whatever the interleaving of syncSelectedCalendars calls at their
\* awaits, at most one call is past the in-flight gate, and while one is the
\* flag is set: no two frames hold a token map or reconcile at the same time.
C33_SinglePass ==
  /\ Cardinality(InFlight) <= 1
  /\ InFlight # {} => syncInFlight
  /\ \A p \in Procs, q \in Procs :
       (call[p].pc # "idle" /\ call[q].pc # "idle") => p = q

\* the second pass is waiting for the token request's answer when another
\* call arrives and is turned away
C33_Witness ==
  /\ passes = 2
  /\ call[1].pc = "getSyncToken"
  /\ call[2].pc = "idle"
  /\ lastOp = Returned(2, "dropped", 0)

\* C34: when a pass that passed the gate ends - by returning, also when every
\* calendar failed, or by an exception that leaves the function, as when
\* writing the tokens throws - the in-flight flag is false afterwards; the flag
\* is set only while a pass is running, so a call is turned away only when a
\* pass is in flight, never because of a pass that has ended.
C34_FlagReleased ==
  [][ /\ \A p \in Procs :
           (call[p].pc # "idle" /\ call'[p].pc = "idle") =>
             /\ ~syncInFlight'
             /\ lastOp'.p = p
             /\ lastOp'.name \in {"return", "throw"}
      /\ (\A p \in Procs : call'[p].pc = "idle") => ~syncInFlight'
      /\ lastOp'.note = "dropped" => InFlight # {} ]_vars

\* writing the tokens has just thrown out of the first pass, and
\* the flag is released
C34_Witness ==
  /\ lastOp = Op("throw", 1, "write-failed")
  /\ InFlight = {}
  /\ ~syncInFlight
  /\ passes = 1

\* the resources of calendar c changed on the server after the token
ChangedSince(c, token) ==
  IF c = 2 THEN {} ELSE {s \in Slots : remote[s].present /\ remote[s].ver > token}

\* frame p is at the end of a pass whose last calendar was synced from an
\* incremental result, and the map holds that result's token, a new one
StoredIncrementalToken(p) ==
  LET c   == call[p]
      cal == c.calendarUrl.cal
  IN  /\ c.pc = "write" /\ Len(c.sel) > 0
      /\ c.syncResult /\ ~c.usedFullFetch
      /\ c.syncTokens[c.calendarUrl] = c.syncResultToken
      /\ c.syncResultToken # StoredToken(cal)

\* C35: if a pass stores a new sync token for a calendar, taken from an
\* incremental result, then when the pass ends the local store holds, for
\* every event that result reports as changed, an event of that calendar with
\* the remote event's field values (and its UID when it has one).
C35_NoLostIncrementalChange ==
  [][\A p \in Procs :
       (StoredIncrementalToken(p) /\ lastOp'.name = "return" /\ lastOp'.p = p) =>
         \A s \in ChangedSince(call[p].calendarUrl.cal,
                               StoredToken(call[p].calendarUrl.cal)) :
           \E r \in store' :
             /\ remote[s].uid # NoUid => r.caldav_uid = remote[s].uid
             /\ normalizeCalendarUrl(r.calendar_url) = call[p].calendarUrl
             /\ SameSixFields(r, RemoteEvent(remote[s].uid, remote[s].shape))]_vars

\* the store st holds event s of the server under frame p's calendar, with
\* its title, date, memo and times
Delivered(st, p, s) ==
  LET e == RemoteEvent(remote[s].uid, remote[s].shape)
  IN  \E r \in st :
        /\ e.uid # NoUid => r.caldav_uid = e.uid
        /\ normalizeCalendarUrl(r.calendar_url) = call[p].calendarUrl
        /\ SameDetails(r, e) /\ r.memo = e.memo

\* C36: an event created or changed on the server after a pass's full fetch
\* returned and before its token request was answered is in the local store
\* when a later pass that starts from the stored token ends, if no request has
\* failed and the server has not changed since that pass began: at the end of
\* such a pass the store holds every event of the fetch window that the token
\* it started from covers (events whose UID no other resource carries).
C36_NoChangeMissedBeforeToken ==
  [][\A p \in Procs :
       LET c == call[p]
       IN  ( /\ c.pc = "write" /\ lastOp'.name = "return" /\ lastOp'.p = p
             /\ c.calendarUrl.cal = 1 /\ c.syncResult /\ ~c.usedFullFetch
             /\ hist.clean /\ faults' = 0 ) =>
             \A s \in Slots :
               ( /\ remote[s].present /\ InWindow(remote[s].shape)
                 /\ remote[s].ver <= StoredToken(1)
                 /\ \A t \in Slots \ {s} :
                      ~(remote[t].present /\ remote[t].uid = remote[s].uid) )
                 => Delivered(store', p, s)]_vars

\* C37: a calendar whose iteration throws before its token step keeps its
\* cursor: the step that throws leaves the calendar's entry of the token map
\* as it was, and when the pass ends the token persisted for every calendar
\* that failed in the pass is the token that was persisted before the pass.
C37_FailedCalendarKeepsCursor ==
  [][\A p \in Procs :
       LET c == call[p]
       IN  /\ FetchThrows(p) =>
                /\ call'[p].syncTokens[c.calendarUrl] = c.syncTokens[c.calendarUrl]
                /\ c.syncTokens[c.calendarUrl] = StoredToken(c.calendarUrl.cal)
                /\ c.calendarUrl.cal \in hist'.failedCals
           /\ (c.pc = "write" /\ call'[p].pc = "idle") =>
                \A k \in hist.failedCals :
                  readSyncTokens(localStorage', TestConfig)[Url(k, FALSE)] = StoredToken(k)]_vars

\* A pass over a calendar with a stored token: its incremental result was
\* discarded, then its full fetch threw; the pass has returned and a token is
\* still stored.
C37_Witness ==
  /\ PassReturned /\ passes = 2
  /\ hist.failedCals = {1} /\ hist.sel = <<Url(1, TRUE)>>
  /\ StoredToken(1) # NoToken

\* the UID written in an ICS text
IcsUid(text) == Match(text, "UID").value

\* C39 as stated: in every createCalDavEvent and updateCalDavEvent call the
\* eventUid of the request equals the one UID inside its eventData; for create
\* it is the event's caldavUid or, when the event has none, the UID the
\* function makes up, used for both; for update it is the uid argument, also
\* when the event passed in carries another caldavUid; and that body is what
\* is sent.
C39_UidConsistencyAnyUid ==
  /\ client.op \in {"createCalDavEvent", "updateCalDavEvent"} =>
       /\ Cardinality(Matches(client.body.eventData, "UID")) = 1
       /\ IcsUid(client.body.eventData) = client.body.eventUid
       /\ client.body.eventUid = client.uid
       /\ client.op = "createCalDavEvent" =>
            client.uid = IF client.given \in {None, ""} THEN CreatedUid ELSE client.given
  /\ ( /\ http.kind = "request" /\ http.peer = "client"
       /\ client.op \in {"createCalDavEvent", "updateCalDavEvent"} ) =>
       http.body = client.body

\* C39, amended: the same for every create call and for every update call
\* whose uid argument is not the empty string; an update called with an empty
\* uid sends an empty eventUid with eventData whose UID serializeEventToICS
\* made up.
C39_UidConsistency ==
  /\ ( /\ client.op \in {"createCalDavEvent", "updateCalDavEvent"}
       /\ client.op = "updateCalDavEvent" => client.uid # "" ) =>
       /\ Cardinality(Matches(client.body.eventData, "UID")) = 1
       /\ IcsUid(client.body.eventData) = client.body.eventUid
       /\ client.body.eventUid = client.uid
       /\ client.op = "createCalDavEvent" =>
            client.uid = IF client.given \in {None, ""} THEN CreatedUid ELSE client.given
  /\ (client.op = "updateCalDavEvent" /\ client.uid = "") =>
       /\ client.body.eventUid = ""
       /\ IcsUid(client.body.eventData) = GeneratedUid
  /\ ( /\ http.kind = "request" /\ http.peer = "client"
       /\ client.op \in {"createCalDavEvent", "updateCalDavEvent"} ) =>
       http.body = client.body

\* the request of an update with uid "uid-123" for an event that carries
\* another caldavUid is on its way, "uid-123" in both places
C39_Witness ==
  /\ client.op = "updateCalDavEvent" /\ client.given = "uid-stale"
  /\ http.kind = "request" /\ http.peer = "client"
  /\ http.body.eventUid = "uid-123"
  /\ IcsUid(http.body.eventData) = "uid-123"

\* the entries of the token map that belong to the calendars selected
SelectedEntries(sel) == {normalizeCalendarUrl(sel[i]) : i \in 1..Len(sel)}

\* C38: a pass changes the persisted token only of the calendars it was given,
\* under their normalized URLs - a URL with a trailing slash has no entry of
\* its own -; the tokens of the other calendars of the same credentials are
\* the same after the pass, within the pass its map differs from the stored one
\* only at the selected calendars, the stored map changes only when a pass
\* ends, and the maps stored under other credentials never change.
C38_TokenMapFrame ==
  [][ /\ \A config \in Configs \ {TestConfig} :
           readSyncTokens(localStorage', config) = readSyncTokens(localStorage, config)
      /\ localStorage' # localStorage =>
           \E p \in Procs : call[p].pc = "write" /\ call'[p].pc = "idle"
      /\ \A u \in Urls :
           u.slash => readSyncTokens(localStorage', TestConfig)[u] = NoToken
      /\ \A p \in Procs : \A u \in Urls \ SelectedEntries(call[p].sel) :
           /\ call[p].pc # "idle" =>
                /\ call[p].syncTokens[u] = readSyncTokens(localStorage, TestConfig)[u]
                /\ readSyncTokens(localStorage', TestConfig)[u] =
                     readSyncTokens(localStorage, TestConfig)[u] ]_vars

\* A pass over calendar 1, given with a trailing slash, has created or
\* updated an event and returned: calendar 1 has the token of this pass,
\* calendar 2 the token an earlier pass stored for it, the other account its
\* own tokens.
C38_Witness ==
  /\ PassReturned /\ passes = 2 /\ hist.sel = <<Url(1, TRUE)>>
  /\ hist.created + hist.updated >= 1
  /\ StoredToken(1) = 2 /\ StoredToken(2) = 1
  /\ readSyncTokens(localStorage, OtherConfig) = OtherTokens

====
